---- MODULE Spec2Model ----
(***************************************************************************)
(* Model of the scrape / merge / enrich / expire pipeline of the IOM job   *)
(* scraper (src/worker/scraper.js, parser.js, utils.js, database.sql).     *)
(*                                                                         *)
(* The jobs table is a function from guid to row.  A row carries one       *)
(* representative column of every class of column the statements treat    *)
(* differently:                                                            *)
(*   title        refreshed by the upsert, untouched by enrichment         *)
(*   location     COALESCE in the upsert and in the enrichment UPDATE      *)
(*                (also employer, salary_text, salary_min, salary_max,     *)
(*                hours_option, hours_type)                                *)
(*   closing_date COALESCE in both; read by the expiry sweep               *)
(*   job_type     written only by the INSERT arm of the upsert, COALESCE   *)
(*                in the enrichment UPDATE (also salary_type)              *)
(*   description  bound directly (no COALESCE) by the enrichment UPDATE    *)
(*   apply_url    bound directly (no COALESCE) by the enrichment UPDATE    *)
(*   source_url, scraped_at   written only by the INSERT arm               *)
(*   updated_at, is_active                                                 *)
(***************************************************************************)
EXTENDS Integers, Sequences, FiniteSets, TLC

VARIABLES
    jobs,      \* jobs table: guid -> row
    log,       \* scrape_log table: sequence of rows, id = index
    now,       \* clock, in days; date('now') and the timestamps read it
    jobs0,     \* the jobs table as the run found it
    pc,        \* position of the running entry point
    kind,      \* "none" | "scrape" | "enrich": which entry point is running
    run,       \* locals of scrapeJobs
    st,        \* locals of the storeJobsBasic call in progress
    enr,       \* locals of enrichJobDetails
    result,    \* value returned by the entry point that finished last
    dbFailed,  \* the jobs-table statement of the last step raised
    faults,    \* database statements that have raised so far
    exp,       \* state of the experiments on single functions (SpecStore,
               \* SpecFetch)
    net        \* outbound requests of the run: how many were issued and
               \* whether sleep() was called since the last one

vars == <<jobs, jobs0, log, now, pc, kind, run, st, enr, result, dbFailed, faults, exp, net>>

----------------------------------------------------------------------------
(* Bounds *)

MaxNow == 1           \* last day the clock reaches
MaxBatch == 1         \* records the listing parser returns for one page
MaxSitePages == 1     \* listing pages that carry a next link
MaxFaults == 1        \* database statements that raise per behaviour
MaxStoreBatch == 2    \* records of the batch of the repeated-upsert experiment
MaxCrawlPages == 51   \* listing pages that carry a next link, long crawl
MaxFetches == 3       \* calls of fetchPage in a row

(* Program constants *)

maxPages == 50
SkipEnrichmentAt == 40
EnrichLimit == 100
StubThreshold == 500

----------------------------------------------------------------------------
(* Values *)

NULL == "NULL"

Guids == {"iom-gov-a", "iom-gov-b"}

SourceUrl(g) == IF g = "iom-gov-a" THEN "https://services.gov.im/viewjob?id=a"
                ELSE "https://services.gov.im/viewjob?id=b"

Titles == {"Nurse", "Senior Nurse"}
Locations == {"Douglas", "Peel"}
JobTypes == {"permanent"}

\* ISO dates; day n of the clock is the n-th name
DayNames == <<"2025-01-01", "2025-01-02", "2025-01-03", "2025-01-04", "2025-01-05">>
DateStr(n) == DayNames[n + 1]
DayOf(d) == CHOOSE n \in 0..(Len(DayNames) - 1) : DayNames[n + 1] = d
Dates == {DateStr(n) : n \in 0..MaxNow}

\* SQLite text comparison of two ISO dates
DateLess(a, b) == a # NULL /\ b # NULL /\ DayOf(a) < DayOf(b)

Truthy(v) == v # NULL /\ v # ""
OrNull(v) == IF Truthy(v) THEN v ELSE NULL       \* JS: v || null
COALESCE(a, b) == IF a # NULL THEN a ELSE b

(* Descriptions: the text is abstracted to what the code reads of it *)
JobtrainUrl == "https://www.jobtrain.co.uk/iomgov/job/1"

\* texts the detail-page parser can return
DetailDescriptions == {NULL, "plain", "stub", "stubSub", "stubNoUrl"}
\* texts the secondary-board parser can return
JobtrainDescriptions == {NULL, "short", "long"}

DescLength(d) ==
    CASE d = "plain" -> 900
      [] d = "stub" -> 120          \* "Apply at https://www.jobtrain.co.uk/..."
      [] d = "stubSub" -> 110       \* "Apply at https://iomgov.jobtrain.co.uk/..."
      [] d = "stubNoUrl" -> 80      \* "Apply at iomgov.jobtrain.co.uk"
      [] d = "short" -> 200
      [] d = "long" -> 900
      [] d = "short+footer" -> 200 + 90
      [] d = "long+footer" -> 900 + 90
      [] OTHER -> 0

ContainsJobtrainDomain(d) ==
    d \in {"stub", "stubSub", "stubNoUrl", "short+footer", "long+footer"}

WithFooter(d) == IF d = "short" THEN "short+footer" ELSE "long+footer"

----------------------------------------------------------------------------
(* parser.js *)

isJobtrainRedirect(text) ==
    IF ~Truthy(text) THEN FALSE
    ELSE ContainsJobtrainDomain(text) /\ DescLength(text) < StubThreshold

\* the pattern needs a scheme and the host jobtrain.co.uk or www.jobtrain.co.uk
extractJobtrainUrl(text) ==
    IF ~Truthy(text) THEN NULL
    ELSE IF text \in {"stub", "short+footer", "long+footer"} THEN JobtrainUrl
    ELSE NULL

\* records parseJobListings can return: title and source_url are always set
\* (parser.js:223), guid is derived from the url, the other columns may be null
ListingJobs ==
    {[guid |-> g, title |-> t, location |-> l, job_type |-> jt,
      closing_date |-> c, source_url |-> SourceUrl(g)] :
        g \in Guids, t \in Titles, l \in Locations \cup {NULL},
        jt \in JobTypes \cup {NULL}, c \in Dates \cup {NULL}}

\* the records the pages of the crawl carry: vacancy a comes as a link-scan
\* record (title, url and guid only) or as a container record with a location
\* and a closing date, vacancy b as a link-scan record
PageJobs ==
    {j \in ListingJobs :
        /\ j.title = "Nurse"
        /\ j.job_type = NULL
        /\ \/ j.location = NULL /\ j.closing_date = NULL
           \/ /\ j.guid = "iom-gov-a"
              /\ j.location = "Douglas"
              /\ j.closing_date \in {DateStr(0), DateStr(MaxNow)}}

\* results of parseJobDetail: description is never the empty string
\* (mapFieldToDetail returns early on an empty value); the label rows of the
\* page are all there or all missing
DetailResults ==
    {[description |-> d, apply_url |-> a, location |-> i[1], job_type |-> i[2],
      closing_date |-> i[3], salary |-> i[4]] :
        d \in DetailDescriptions,
        a \in {NULL, "https://services.gov.im/apply"},
        i \in {<<NULL, NULL, NULL, NULL>>,
               <<"Peel", "permanent", DateStr(0), "25000 per annum">>}}

NoJobtrain == [description |-> NULL, location |-> NULL, job_type |-> NULL,
               closing_date |-> NULL, salary |-> NULL]

\* the detail pages of the crawled site: the label rows other than the notes
\* are missing, the apply link comes with the notes, and a stub names the
\* secondary board by a URL
PageDetails ==
    {d \in DetailResults :
        /\ d.description # "stubNoUrl"
        /\ d.location = NULL
        /\ d.apply_url = NULL <=> d.description = NULL}

\* results of parseJobtrainDetail
JobtrainResults ==
    {[description |-> d, location |-> i[1], job_type |-> i[2],
      closing_date |-> i[3], salary |-> i[4]] :
        d \in JobtrainDescriptions,
        i \in {<<NULL, NULL, NULL, NULL>>,
               <<"Douglas", "permanent", DateStr(MaxNow), "30000 per annum">>}}

\* the secondary-board pages of the crawled site: no structured fields
PageJobtrain == {jt \in JobtrainResults : jt.location = NULL}

----------------------------------------------------------------------------
(* scraper.js: fetchPage *)

\* what the network hands back: the request throws, or a response arrives
\* with a status and a body
Responses ==
    {[thrown |-> TRUE, ok |-> FALSE, body |-> NULL]} \cup
    [thrown : {FALSE}, ok : BOOLEAN, body : {"block", "page", ""}]

fetchPage(resp) ==
    IF resp.thrown
    THEN [html |-> NULL, rawText |-> NULL, error |-> "network", wafBlocked |-> FALSE]
    ELSE IF ~resp.ok
    THEN [html |-> NULL, rawText |-> NULL, error |-> "HTTP", wafBlocked |-> FALSE]
    ELSE IF resp.body = "block"
    THEN [html |-> NULL, rawText |-> resp.body, error |-> "WAF blocked", wafBlocked |-> TRUE]
    ELSE [html |-> resp.body, rawText |-> resp.body, error |-> NULL, wafBlocked |-> FALSE]

NetInit == [requests |-> 0, slept |-> FALSE]

\* await fetchPage(url): one more outbound request
Fetched(n) == [requests |-> n.requests + 1, slept |-> FALSE]

\* await sleep(CONFIG.scraper.requestDelayMs)
sleep(n) == [n EXCEPT !.slept = TRUE]

----------------------------------------------------------------------------
(* scraper.js: the statements on the jobs table *)

NewRow(job, t) ==
    [title |-> job.title, location |-> job.location,
     job_type |-> job.job_type, closing_date |-> job.closing_date,
     description |-> NULL, apply_url |-> NULL,
     source_url |-> job.source_url,
     scraped_at |-> t, updated_at |-> t, is_active |-> 1]

InsertRow(tbl, job, t) ==
    [g \in DOMAIN tbl \cup {job.guid} |->
        IF g = job.guid THEN NewRow(job, t) ELSE tbl[g]]

\* upsert with the conflict arm binding location without COALESCE
upsert_NoCoalesce(tbl, job, t) ==
    IF job.guid \in DOMAIN tbl
    THEN [tbl EXCEPT ![job.guid] =
            [@ EXCEPT !.title = job.title,
                      !.location = job.location,
                      !.closing_date = COALESCE(job.closing_date, @),
                      !.updated_at = t,
                      !.is_active = 1]]
    ELSE InsertRow(tbl, job, t)

\* upsert with the conflict arm also refreshing scraped_at
upsert_RefreshScraped(tbl, job, t) ==
    IF job.guid \in DOMAIN tbl
    THEN [tbl EXCEPT ![job.guid] =
            [@ EXCEPT !.title = job.title,
                      !.location = COALESCE(job.location, @),
                      !.closing_date = COALESCE(job.closing_date, @),
                      !.scraped_at = t,
                      !.updated_at = t,
                      !.is_active = 1]]
    ELSE InsertRow(tbl, job, t)

\* INSERT ... ON CONFLICT(guid) DO UPDATE of storeJobsBasic
upsert(tbl, job, t) ==
    IF job.guid \in DOMAIN tbl
    THEN [tbl EXCEPT ![job.guid] =
            [@ EXCEPT !.title = job.title,
                      !.location = COALESCE(job.location, @),
                      !.closing_date = COALESCE(job.closing_date, @),
                      !.updated_at = t,
                      !.is_active = 1]]
    ELSE InsertRow(tbl, job, t)

\* the error a run() of the upsert can raise: the conflict on guid is handled
\* by the ON CONFLICT arm, so the only failure is the database itself
UpsertError(fault) == IF fault THEN "D1_ERROR" ELSE NULL

IsUniqueConstraint(err) == err = "UNIQUE constraint failed"

\* one iteration of the loop of storeJobsBasic
storeJob(s, job, t, fault) ==
    LET err == UpsertError(fault) IN
    IF err = NULL
    THEN [jobs |-> upsert(s.jobs, job, t), inserted |-> s.inserted + 1,
          updated |-> s.updated]
    ELSE IF IsUniqueConstraint(err)
    THEN [s EXCEPT !.updated = @ + 1]
    ELSE s

\* storeJobsBasic on a whole batch, no statement failing
RECURSIVE storeLoop(_, _, _)
storeLoop(s, batch, t) ==
    IF batch = <<>> THEN s
    ELSE storeLoop(storeJob(s, Head(batch), t, FALSE), Tail(batch), t)

storeJobsBasic(tbl, batch, t) ==
    storeLoop([jobs |-> tbl, inserted |-> 0, updated |-> 0], batch, t)

\* WHERE clause of the selection query of enrichJobDetails
NeedsDetails(row) ==
    /\ row.source_url # NULL
    /\ \/ row.description = NULL
       \/ (ContainsJobtrainDomain(row.description)
           /\ DescLength(row.description) < StubThreshold)

\* ORDER BY scraped_at DESC LIMIT 100: the orders the query can return
SelectionOrders(tbl) ==
    LET sel == {g \in DOMAIN tbl : NeedsDetails(tbl[g])}
        n == IF Cardinality(sel) < EnrichLimit THEN Cardinality(sel) ELSE EnrichLimit
    IN {q \in [1..n -> sel] :
          /\ \A i, j \in 1..n : i < j =>
                 (q[i] # q[j] /\ tbl[q[i]].scraped_at >= tbl[q[j]].scraped_at)
          /\ \A g \in sel : (\A i \in 1..n : q[i] # g) =>
                 \A i \in 1..n : tbl[q[i]].scraped_at >= tbl[g].scraped_at}

\* the enrichment UPDATE also setting is_active = 1, as the upsert does
enrichUpdate_Reactivate(tbl, g, d, t) ==
    [tbl EXCEPT ![g] =
        [@ EXCEPT !.description = d.description,
                  !.apply_url = d.apply_url,
                  !.location = COALESCE(OrNull(d.location), @),
                  !.job_type = COALESCE(OrNull(d.job_type), @),
                  !.closing_date = COALESCE(OrNull(d.closing_date), @),
                  !.updated_at = t,
                  !.is_active = 1]]

\* UPDATE jobs SET ... WHERE id = ? of enrichJobDetails
enrichUpdate(tbl, g, d, t) ==
    [tbl EXCEPT ![g] =
        [@ EXCEPT !.description = d.description,
                  !.apply_url = d.apply_url,
                  !.location = COALESCE(OrNull(d.location), @),
                  !.job_type = COALESCE(OrNull(d.job_type), @),
                  !.closing_date = COALESCE(OrNull(d.closing_date), @),
                  !.updated_at = t]]

\* the merge with the secondary location taking priority
mergeJobtrain_SecondaryLocation(d, jt) ==
    IF ~Truthy(jt.description) THEN d
    ELSE [d EXCEPT !.description = WithFooter(jt.description),
                   !.apply_url = IF Truthy(d.apply_url) THEN d.apply_url ELSE JobtrainUrl,
                   !.salary = IF Truthy(jt.salary) /\ ~Truthy(d.salary)
                              THEN jt.salary ELSE d.salary,
                   !.job_type = IF Truthy(jt.job_type) /\ ~Truthy(d.job_type)
                                THEN jt.job_type ELSE d.job_type,
                   !.closing_date = IF Truthy(jt.closing_date) /\ ~Truthy(d.closing_date)
                                    THEN jt.closing_date ELSE d.closing_date,
                   !.location = IF Truthy(jt.location)
                                THEN jt.location ELSE d.location]

\* merge of the secondary-board parse into the detail parse (scraper.js:372-389)
mergeJobtrain(d, jt) ==
    IF ~Truthy(jt.description) THEN d
    ELSE [d EXCEPT !.description = WithFooter(jt.description),
                   !.apply_url = IF Truthy(d.apply_url) THEN d.apply_url ELSE JobtrainUrl,
                   !.salary = IF Truthy(jt.salary) /\ ~Truthy(d.salary)
                              THEN jt.salary ELSE d.salary,
                   !.job_type = IF Truthy(jt.job_type) /\ ~Truthy(d.job_type)
                                THEN jt.job_type ELSE d.job_type,
                   !.closing_date = IF Truthy(jt.closing_date) /\ ~Truthy(d.closing_date)
                                    THEN jt.closing_date ELSE d.closing_date,
                   !.location = IF Truthy(jt.location) /\ ~Truthy(d.location)
                                THEN jt.location ELSE d.location]

\* the sweep with closing_date <= date('now')
expireUpdate_Inclusive(tbl, t) ==
    [g \in DOMAIN tbl |->
        IF tbl[g].closing_date # NULL /\ ~DateLess(DateStr(t), tbl[g].closing_date)
           /\ tbl[g].is_active = 1
        THEN [tbl[g] EXCEPT !.is_active = 0, !.updated_at = t]
        ELSE tbl[g]]

\* UPDATE of markExpiredJobs
expireUpdate(tbl, t) ==
    [g \in DOMAIN tbl |->
        IF DateLess(tbl[g].closing_date, DateStr(t)) /\ tbl[g].is_active = 1
        THEN [tbl[g] EXCEPT !.is_active = 0, !.updated_at = t]
        ELSE tbl[g]]

markExpiredJobs(tbl, t, fault) == IF fault THEN tbl ELSE expireUpdate(tbl, t)

----------------------------------------------------------------------------
(* scraper.js: the statements on scrape_log *)

logScrapeStart(lg, urlType, fault) ==
    IF fault THEN [log |-> lg, logId |-> 0]
    ELSE [log |-> Append(lg, [url_type |-> urlType, status |-> "running",
                              jobs_found |-> 0, jobs_inserted |-> 0,
                              jobs_updated |-> 0, completed_at |-> NULL,
                              error_message |-> NULL, sample_html |-> NULL]),
          logId |-> Len(lg) + 1]

updateScrapeProgress(lg, logId, found, inserted, updated, fault) ==
    IF logId = 0 \/ fault THEN lg
    ELSE [lg EXCEPT ![logId] = [@ EXCEPT !.jobs_found = found,
                                         !.jobs_inserted = inserted,
                                         !.jobs_updated = updated]]

logScrapeComplete(lg, logId, found, inserted, updated, status, errorMessage, sampleHtml, fault) ==
    IF logId = 0 \/ fault THEN lg
    ELSE [lg EXCEPT ![logId] = [@ EXCEPT !.completed_at = "CURRENT_TIMESTAMP",
                                         !.jobs_found = found,
                                         !.jobs_inserted = inserted,
                                         !.jobs_updated = updated,
                                         !.status = status,
                                         !.error_message = errorMessage,
                                         !.sample_html = sampleHtml]]

----------------------------------------------------------------------------
(* Initial state *)

EmptyTable == [g \in {} |-> NULL]

RunInit == [logId |-> 0, pageCount |-> 0, fetchAttempts |-> 0,
            fetchSuccesses |-> 0, wafBlocks |-> 0, fetchErrors |-> 0,
            totalFound |-> 0, totalInserted |-> 0, totalUpdated |-> 0,
            sampleHtml |-> NULL, hasNext |-> FALSE, wrote |-> FALSE]

StInit == [pending |-> 0, inserted |-> 0, updated |-> 0, now |-> 0]

NoDetail == [description |-> NULL, apply_url |-> NULL, location |-> NULL,
             job_type |-> NULL, closing_date |-> NULL, salary |-> NULL]

\* selected is the result of the selection query, queue what the loop has
\* still to visit, det the details of the current record, jt the secondary
\* parse merged into them
EnrInit == [selected |-> <<>>, queue |-> <<>>, enriched |-> 0, attempted |-> 0,
            failed |-> 0, sampleHtml |-> NULL, det |-> NoDetail, jt |-> NoJobtrain]

NoResult == [of |-> "none", success |-> FALSE, error |-> NULL,
             found |-> 0, inserted |-> 0, updated |-> 0,
             enriched |-> 0, attempted |-> 0, failed |-> 0]

ExpInit == [phase |-> 0, batch |-> <<>>, after1 |-> EmptyTable,
            ret1 |-> [inserted |-> 0, updated |-> 0],
            ret2 |-> [inserted |-> 0, updated |-> 0]]

\* rows earlier runs leave behind
ListedRow ==       \* inserted by a crawl, not yet enriched
    [title |-> "Nurse", location |-> "Douglas", job_type |-> NULL,
     closing_date |-> DateStr(0), description |-> NULL, apply_url |-> NULL,
     source_url |-> SourceUrl("iom-gov-a"),
     scraped_at |-> 0, updated_at |-> 0, is_active |-> 1]

StubRow ==         \* enriched from a stub page whose secondary fetch failed
    [ListedRow EXCEPT !.description = "stub",
                      !.apply_url = "https://services.gov.im/apply"]

EnrichedRow ==     \* enriched with a full description
    [ListedRow EXCEPT !.description = "plain",
                      !.apply_url = "https://services.gov.im/apply"]

SweptRow ==        \* never enriched, deactivated after its closing date
    [ListedRow EXCEPT !.is_active = 0]

InitRows == {ListedRow, StubRow, EnrichedRow, SweptRow}

\* a swept row exists only once its closing date has passed
InitStores(t) ==
    {EmptyTable} \cup
    {[g \in {"iom-gov-a"} |-> r] :
        r \in {x \in InitRows : x.is_active = 0 => DateLess(x.closing_date, DateStr(t))}}

\* the scrape_log row of the run that filled the table
OldLogRow == [url_type |-> "full", status |-> "success", jobs_found |-> 1,
              jobs_inserted |-> 1, jobs_updated |-> 0,
              completed_at |-> "CURRENT_TIMESTAMP", error_message |-> NULL,
              sample_html |-> "page"]

Init ==
    /\ now \in 0..MaxNow
    /\ jobs0 \in InitStores(now)
    /\ jobs = jobs0
    /\ log = IF jobs0 = EmptyTable THEN <<>> ELSE <<OldLogRow>>
    /\ pc = "idle"
    /\ kind = "none"
    /\ run = RunInit
    /\ st = StInit
    /\ enr = EnrInit
    /\ result = NoResult
    /\ dbFailed = FALSE
    /\ faults = 0
    /\ exp = ExpInit
    /\ net = NetInit

----------------------------------------------------------------------------
(* Faults: n more database statements raise in this step *)

B(f) == IF f THEN 1 ELSE 0

Raise(n) == faults + n <= MaxFaults /\ faults' = faults + n

----------------------------------------------------------------------------
(* scrapeJobs *)

\* a count query that treats an error as a table with rows
isEmptyDatabase_ErrorIsNonEmpty(tbl, fault) == IF fault THEN FALSE ELSE DOMAIN tbl = {}

\* scraper.js:192-200
isEmptyDatabase(tbl, fault) == IF fault THEN TRUE ELSE DOMAIN tbl = {}

\* scraper.js:29-48
StartScrape(forceFullScrape, countFault, logFault) ==
    /\ pc = "idle"
    /\ Raise(B(countFault) + B(logFault))
    /\ kind = "none"
    /\ LET isFirstRun == isEmptyDatabase(jobs, countFault)
           useFullListing == forceFullScrape \/ isFirstRun
           urlType == IF useFullListing THEN "full" ELSE "recent"
           started == logScrapeStart(log, urlType, logFault)
       IN /\ log' = started.log
          /\ run' = [RunInit EXCEPT !.logId = started.logId]
    /\ kind' = "scrape"
    /\ pc' = "fetch"
    /\ st' = StInit
    /\ enr' = EnrInit
    /\ dbFailed' = FALSE
    /\ UNCHANGED <<jobs, jobs0, now, result, exp, net>>

\* the loop test with pageCount <= maxPages
AfterPage_Inclusive(hasMore, pageCount) ==
    IF hasMore /\ pageCount <= maxPages THEN "fetch" ELSE "classify"

\* where the crawl goes after a page: scraper.js:89-97 and the loop test of line 50
AfterPage(hasMore, pageCount) ==
    IF hasMore /\ pageCount < maxPages THEN "fetch" ELSE "classify"

\* the loop body collecting the records of a page for a store after the crawl
FetchListing_DeferStore(resp, found, hasMore, sitePages) ==
    /\ pc = "fetch"
    /\ Raise(0)
    /\ LET r == fetchPage(resp)
           got == Fetched(net)
           sample == IF run.sampleHtml = NULL /\ Truthy(r.rawText)
                     THEN r.rawText ELSE run.sampleHtml
           counted == [run EXCEPT !.pageCount = @ + 1,
                                  !.fetchAttempts = @ + 1,
                                  !.sampleHtml = sample]
       IN IF ~Truthy(r.html)
          THEN /\ found = 0 /\ ~hasMore
               /\ run' = IF r.wafBlocked
                         THEN [counted EXCEPT !.wafBlocks = @ + 1]
                         ELSE [counted EXCEPT !.fetchErrors = @ + 1]
               /\ pc' = "classify"
               /\ net' = got
          ELSE /\ hasMore => counted.pageCount <= sitePages
               /\ run' = [counted EXCEPT !.fetchSuccesses = @ + 1,
                                         !.totalFound = @ + found,
                                         !.hasNext = hasMore]
               /\ pc' = AfterPage(hasMore, counted.pageCount)
               /\ net' = IF hasMore THEN sleep(got) ELSE got
    /\ st' = st
    /\ dbFailed' = FALSE
    /\ UNCHANGED <<jobs, jobs0, log, now, kind, enr, result, exp>>

\* one pass of the loop body up to the store call: scraper.js:50-79
\* found is the number of records parseJobListings returns, hasMore the
\* pagination signal of the same page
FetchListing(resp, found, hasMore, sitePages) ==
    /\ pc = "fetch"
    /\ Raise(0)
    /\ LET r == fetchPage(resp)
           got == Fetched(net)
           sample == IF run.sampleHtml = NULL /\ Truthy(r.rawText)
                     THEN r.rawText ELSE run.sampleHtml
           counted == [run EXCEPT !.pageCount = @ + 1,
                                  !.fetchAttempts = @ + 1,
                                  !.sampleHtml = sample]
       IN IF ~Truthy(r.html)
          THEN /\ found = 0 /\ ~hasMore
               /\ run' = IF r.wafBlocked
                         THEN [counted EXCEPT !.wafBlocks = @ + 1]
                         ELSE [counted EXCEPT !.fetchErrors = @ + 1]
               /\ pc' = "classify"
               /\ st' = st
               /\ net' = got
          ELSE /\ hasMore => counted.pageCount <= sitePages
               /\ run' = [counted EXCEPT !.fetchSuccesses = @ + 1,
                                         !.totalFound = @ + found,
                                         !.hasNext = hasMore]
               /\ IF found > 0
                  THEN /\ pc' = "store"
                       /\ st' = [pending |-> found, inserted |-> 0,
                                 updated |-> 0, now |-> now]
                       /\ net' = got
                  ELSE /\ pc' = AfterPage(hasMore, counted.pageCount)
                       /\ st' = st
                       /\ net' = IF hasMore THEN sleep(got) ELSE got
    /\ dbFailed' = FALSE
    /\ UNCHANGED <<jobs, jobs0, log, now, kind, enr, result, exp>>

\* one iteration of the loop of storeJobsBasic: scraper.js:279-311
StoreJob(job, fault) ==
    /\ pc = "store"
    /\ Raise(B(fault))
    /\ st.pending > 0
    /\ LET s == storeJob([jobs |-> jobs, inserted |-> st.inserted,
                          updated |-> st.updated], job, st.now, fault)
       IN /\ jobs' = s.jobs
          /\ st' = [st EXCEPT !.pending = @ - 1, !.inserted = s.inserted,
                              !.updated = s.updated]
    /\ run' = [run EXCEPT !.wrote = @ \/ ~fault]
    /\ dbFailed' = fault
    /\ UNCHANGED <<jobs0, log, now, pc, kind, enr, result, exp, net>>

\* return of storeJobsBasic, counters, progress row, pagination: scraper.js:80-97
StoreDone(logFault) ==
    /\ pc = "store"
    /\ Raise(B(logFault))
    /\ st.pending = 0
    /\ LET counted == [run EXCEPT !.totalInserted = @ + st.inserted,
                                  !.totalUpdated = @ + st.updated]
       IN /\ run' = counted
          /\ log' = updateScrapeProgress(log, run.logId, counted.totalFound,
                        counted.totalInserted, counted.totalUpdated, logFault)
    /\ pc' = AfterPage(run.hasNext, run.pageCount)
    /\ net' = IF run.hasNext THEN sleep(net) ELSE net
    /\ st' = StInit         \* the locals of storeJobsBasic are gone
    /\ dbFailed' = FALSE
    /\ UNCHANGED <<jobs, jobs0, now, kind, enr, result, exp>>

\* the WAF test without the fetchSuccesses === 0 conjunct
IsWafFailure_AnyBlock(r) == r.wafBlocks > 0

\* the three failure tests of scraper.js:109-144, in order
IsWafFailure(r) == r.wafBlocks > 0 /\ r.fetchSuccesses = 0

\* the rate test with failureRate >= 0.5
IsHighFailureRate_Inclusive(r) ==
    /\ r.fetchAttempts > 0
    /\ 2 * (r.wafBlocks + r.fetchErrors) >= r.fetchAttempts
    /\ r.totalFound = 0

\* failureRate > 0.5, in integers
IsHighFailureRate(r) ==
    /\ r.fetchAttempts > 0
    /\ 2 * (r.wafBlocks + r.fetchErrors) > r.fetchAttempts
    /\ r.totalFound = 0

IsParserFailure(r) == r.fetchSuccesses > 0 /\ r.totalFound = 0

\* a classification that fails the run on any failed fetch
Classification_AnyFailedFetch(r) ==
    IF IsWafFailure(r) THEN "waf"
    ELSE IF r.wafBlocks + r.fetchErrors > 0 THEN "rate"
    ELSE IF IsParserFailure(r) THEN "parser"
    ELSE "proceed"

Classification(r) ==
    IF IsWafFailure(r) THEN "waf"
    ELSE IF IsHighFailureRate(r) THEN "rate"
    ELSE IF IsParserFailure(r) THEN "parser"
    ELSE "proceed"

\* the budget test with fetchAttempts > 40
skipEnrichment_Strict(r) == r.fetchAttempts > SkipEnrichmentAt

\* scraper.js:104
skipEnrichment(r) == r.fetchAttempts >= SkipEnrichmentAt

FailedResult(of, err, r) ==
    [NoResult EXCEPT !.of = of, !.error = err]

\* scraper.js:102-149
Classify(logFault) ==
    /\ pc = "classify"
    /\ Raise(B(logFault))
    /\ LET c == Classification(run)
       IN IF c # "proceed"
          THEN /\ log' = logScrapeComplete(log, run.logId, run.totalFound,
                             run.totalInserted, run.totalUpdated, "failed", c,
                             run.sampleHtml, logFault)
               /\ result' = FailedResult("scrape", c, run)
               /\ pc' = "done"
          ELSE /\ ~logFault
               /\ log' = log
               /\ result' = result
               /\ pc' = IF skipEnrichment(run) THEN "expire" ELSE "select"
    /\ dbFailed' = FALSE
    /\ UNCHANGED <<jobs, jobs0, now, kind, run, st, enr, exp, net>>

\* scraper.js:151-152 and 498-511
Expire(fault) ==
    /\ pc = "expire"
    /\ Raise(B(fault))
    /\ jobs' = markExpiredJobs(jobs, now, fault)
    /\ run' = [run EXCEPT !.wrote = @ \/ ~fault]
    /\ dbFailed' = fault
    /\ pc' = "complete"
    /\ enr' = EnrInit      \* the return value of enrichJobDetails is dropped
    /\ UNCHANGED <<jobs0, log, now, kind, st, result, exp, net>>

\* scraper.js:154-173
Complete(logFault) ==
    /\ pc = "complete"
    /\ Raise(B(logFault))
    /\ log' = logScrapeComplete(log, run.logId, run.totalFound, run.totalInserted,
                  run.totalUpdated, "success", NULL, run.sampleHtml, logFault)
    /\ result' = [NoResult EXCEPT !.of = "scrape", !.success = TRUE,
                                  !.found = run.totalFound,
                                  !.inserted = run.totalInserted,
                                  !.updated = run.totalUpdated]
    /\ pc' = "done"
    /\ dbFailed' = FALSE
    /\ UNCHANGED <<jobs, jobs0, now, kind, run, st, enr, exp, net>>

----------------------------------------------------------------------------
(* enrichJobDetails and enrichJobDetailsOnly *)

\* where control goes when the loop of enrichJobDetails has no record left
AfterEnrich(queue) ==
    IF queue # <<>> THEN "enrich"
    ELSE IF kind = "scrape" THEN "expire" ELSE "finish"

\* scraper.js:583-588
StartEnrichOnly(logFault) ==
    /\ pc = "idle"
    /\ Raise(B(logFault))
    /\ kind = "none"
    /\ LET started == logScrapeStart(log, "enrichment", logFault)
       IN /\ log' = started.log
          /\ run' = [RunInit EXCEPT !.logId = started.logId]
    /\ kind' = "enrich"
    /\ pc' = "select"
    /\ st' = StInit
    /\ enr' = EnrInit
    /\ dbFailed' = FALSE
    /\ UNCHANGED <<jobs, jobs0, now, result, exp, net>>

\* the selection query, scraper.js:324-340; when it raises, the error reaches
\* the catch of the entry point (scraper.js:174-186, 625-634)
Select(fault, logFault) ==
    /\ pc = "select"
    /\ Raise(B(fault) + B(logFault))
    /\ IF fault
       THEN /\ log' = IF kind = "scrape"
                      THEN logScrapeComplete(log, run.logId, run.totalFound,
                               run.totalInserted, run.totalUpdated, "failed",
                               "exception", run.sampleHtml, logFault)
                      ELSE logScrapeComplete(log, run.logId, 0, 0, 0, "failed",
                               "exception", NULL, logFault)
            /\ result' = IF kind = "scrape"
                         THEN [NoResult EXCEPT !.of = "scrape", !.error = "exception",
                                               !.found = run.totalFound,
                                               !.inserted = run.totalInserted,
                                               !.updated = run.totalUpdated]
                         ELSE [NoResult EXCEPT !.of = "enrich", !.error = "exception"]
            /\ pc' = "done"
            /\ enr' = enr
       ELSE /\ ~logFault
            /\ \E q \in SelectionOrders(jobs) :
                  /\ enr' = [EnrInit EXCEPT !.selected = q, !.queue = q]
                  /\ pc' = AfterEnrich(q)
            /\ log' = log
            /\ result' = result
    /\ dbFailed' = fault
    /\ UNCHANGED <<jobs, jobs0, now, kind, run, st, exp, net>>

\* the iteration without its try/catch: a raised UPDATE ends the loop
Persist_RaiseAborts(e, d, n, fault) ==
    /\ jobs' = IF fault THEN jobs ELSE enrichUpdate(jobs, Head(e.queue), d, now)
    /\ net' = IF fault THEN n ELSE sleep(n)
    /\ enr' = [e EXCEPT !.queue = Tail(@),
                        !.enriched = IF fault THEN @ ELSE @ + 1,
                        !.det = d]
    /\ run' = [run EXCEPT !.wrote = @ \/ ~fault]
    /\ dbFailed' = fault
    /\ pc' = IF fault THEN AfterEnrich(<<>>) ELSE AfterEnrich(Tail(e.queue))

\* the UPDATE and the end of one loop iteration: scraper.js:427-488
\* a raised error leaves both counters alone (catch of line 486)
Persist(e, d, n, fault) ==
    /\ jobs' = IF fault THEN jobs ELSE enrichUpdate(jobs, Head(e.queue), d, now)
    /\ net' = IF fault THEN n ELSE sleep(n)
    /\ enr' = [e EXCEPT !.queue = Tail(@),
                        !.enriched = IF fault THEN @ ELSE @ + 1,
                        !.det = d]
    /\ run' = [run EXCEPT !.wrote = @ \/ ~fault]
    /\ dbFailed' = fault
    /\ pc' = AfterEnrich(Tail(e.queue))

\* detail fetch and parse of the next record: scraper.js:342-366
EnrichOne(resp, d, fault) ==
    /\ pc = "enrich"
    /\ Raise(B(fault))
    /\ LET r == fetchPage(resp)
           got == Fetched(net)
           e == [enr EXCEPT !.attempted = @ + 1,
                            !.sampleHtml = IF @ = NULL /\ Truthy(r.rawText)
                                           THEN r.rawText ELSE @,
                            !.det = NoDetail,
                            !.jt = NoJobtrain]
       IN IF ~Truthy(r.html)
          THEN /\ d = NoDetail /\ ~fault
               /\ enr' = [e EXCEPT !.failed = @ + 1, !.queue = Tail(@)]
               /\ pc' = AfterEnrich(Tail(e.queue))
               /\ net' = got
               /\ dbFailed' = FALSE
               /\ UNCHANGED <<jobs, run>>
          ELSE IF isJobtrainRedirect(d.description)
                  /\ extractJobtrainUrl(d.description) # NULL
          THEN /\ ~fault
               /\ enr' = [e EXCEPT !.det = d]
               /\ pc' = "jobtrain"
               /\ net' = sleep(got)
               /\ dbFailed' = FALSE
               /\ UNCHANGED <<jobs, run>>
          ELSE Persist(e, d, got, fault)
    /\ UNCHANGED <<jobs0, log, now, kind, st, result, exp>>

\* secondary fetch, merge and UPDATE: scraper.js:367-488
EnrichJobtrain(resp, jt, fault) ==
    /\ pc = "jobtrain"
    /\ Raise(B(fault))
    /\ LET r == fetchPage(resp)
           got == Fetched(net)
       IN IF Truthy(r.html)
          THEN Persist([enr EXCEPT !.jt = jt], mergeJobtrain(enr.det, jt), got, fault)
          ELSE /\ jt = NoJobtrain
               /\ Persist(enr, enr.det, got, fault)
    /\ UNCHANGED <<jobs0, log, now, kind, st, result, exp>>

\* the standalone pass returning success: false whenever a fetch failed
FinishEnrichOnly_PartialFails(logFault) ==
    /\ pc = "finish"
    /\ Raise(B(logFault))
    /\ LET hasFailures == enr.failed > 0
           allFailed == enr.attempted > 0 /\ enr.enriched = 0
                        /\ enr.failed = enr.attempted
           status == IF allFailed THEN "failed"
                     ELSE IF hasFailures THEN "partial" ELSE "success"
           errorMsg == IF allFailed THEN "allFailed"
                       ELSE IF hasFailures THEN "someFailed" ELSE NULL
       IN /\ log' = logScrapeComplete(log, run.logId, enr.attempted, enr.enriched,
                        0, status, errorMsg, enr.sampleHtml, logFault)
          /\ result' = [NoResult EXCEPT !.of = "enrich", !.success = ~hasFailures,
                                        !.error = IF allFailed THEN errorMsg ELSE NULL,
                                        !.enriched = IF allFailed THEN 0 ELSE enr.enriched,
                                        !.attempted = enr.attempted,
                                        !.failed = enr.failed]
    /\ pc' = "done"
    /\ dbFailed' = FALSE
    /\ UNCHANGED <<jobs, jobs0, now, kind, run, st, enr, exp, net>>

\* scraper.js:594-624
FinishEnrichOnly(logFault) ==
    /\ pc = "finish"
    /\ Raise(B(logFault))
    /\ LET hasFailures == enr.failed > 0
           allFailed == enr.attempted > 0 /\ enr.enriched = 0
                        /\ enr.failed = enr.attempted
           status == IF allFailed THEN "failed"
                     ELSE IF hasFailures THEN "partial" ELSE "success"
           errorMsg == IF allFailed THEN "allFailed"
                       ELSE IF hasFailures THEN "someFailed" ELSE NULL
       IN /\ log' = logScrapeComplete(log, run.logId, enr.attempted, enr.enriched,
                        0, status, errorMsg, enr.sampleHtml, logFault)
          /\ result' = [NoResult EXCEPT !.of = "enrich", !.success = ~allFailed,
                                        !.error = IF allFailed THEN errorMsg ELSE NULL,
                                        !.enriched = IF allFailed THEN 0 ELSE enr.enriched,
                                        !.attempted = enr.attempted,
                                        !.failed = enr.failed]
    /\ pc' = "done"
    /\ dbFailed' = FALSE
    /\ UNCHANGED <<jobs, jobs0, now, kind, run, st, enr, exp, net>>

----------------------------------------------------------------------------
(* The pipeline *)

Next ==
    \/ \E f, cf, lf \in BOOLEAN : StartScrape(f, cf, lf)
    \/ \E resp \in Responses, n \in 0..MaxBatch, m \in BOOLEAN :
           FetchListing(resp, n, m, MaxSitePages)
    \/ \E job \in PageJobs, f \in BOOLEAN : StoreJob(job, f)
    \/ \E lf \in BOOLEAN : StoreDone(lf)
    \/ \E lf \in BOOLEAN : Classify(lf)
    \/ \E lf \in BOOLEAN : StartEnrichOnly(lf)
    \/ \E f, lf \in BOOLEAN : Select(f, lf)
    \/ \E resp \in Responses, d \in PageDetails \cup {NoDetail}, f \in BOOLEAN : EnrichOne(resp, d, f)
    \/ \E resp \in Responses, jt \in PageJobtrain \cup {NoJobtrain}, f \in BOOLEAN : EnrichJobtrain(resp, jt, f)
    \/ \E f \in BOOLEAN : Expire(f)
    \/ \E lf \in BOOLEAN : Complete(lf)
    \/ \E lf \in BOOLEAN : FinishEnrichOnly(lf)

Spec == Init /\ [][Next]_vars

----------------------------------------------------------------------------
(* A crawl of a long listing: many pages, one vacancy on the site; of the    *)
(* database statements only the sweep and the final log UPDATE may raise    *)

CrawlResponses == {r \in Responses : r.ok /\ r.body \in {"page", "block"}}

CrawlJobs == {j \in PageJobs : j.guid = "iom-gov-a" /\ j.location = NULL}

NextCrawl ==
    \/ \E f \in BOOLEAN : StartScrape(f, FALSE, FALSE)
    \/ \E resp \in CrawlResponses, n \in 0..MaxBatch, m \in BOOLEAN :
           FetchListing(resp, n, m, MaxCrawlPages)
    \/ \E job \in CrawlJobs : StoreJob(job, FALSE)
    \/ StoreDone(FALSE)
    \/ Classify(FALSE)
    \/ Select(FALSE, FALSE)
    \/ \E resp \in CrawlResponses, d \in PageDetails \cup {NoDetail} :
           EnrichOne(resp, d, FALSE)
    \/ \E resp \in CrawlResponses, jt \in PageJobtrain \cup {NoJobtrain} :
           EnrichJobtrain(resp, jt, FALSE)
    \/ \E f \in BOOLEAN : Expire(f)
    \/ \E lf \in BOOLEAN : Complete(lf)

SpecCrawl == Init /\ [][NextCrawl]_vars

----------------------------------------------------------------------------
(* storeJobsBasic called twice with one batch *)

\* closing_date is merged as location is; the batches vary location
BatchJobs == {j \in ListingJobs : j.closing_date = NULL}

Batches == UNION {[1..n -> BatchJobs] : n \in 0..MaxStoreBatch}

InitStore ==
    /\ now \in 0..MaxNow
    /\ jobs0 \in InitStores(now)
    /\ jobs = jobs0
    /\ log = <<>>
    /\ pc = "idle"
    /\ kind = "none"
    /\ run = RunInit
    /\ st = StInit
    /\ enr = EnrInit
    /\ result = NoResult
    /\ dbFailed = FALSE
    /\ faults = 0
    /\ exp \in {[ExpInit EXCEPT !.batch = b] : b \in Batches}
    /\ net = NetInit

StoreFirst ==
    /\ exp.phase = 0
    /\ LET r == storeJobsBasic(jobs, exp.batch, now)
       IN /\ jobs' = r.jobs
          /\ exp' = [exp EXCEPT !.phase = 1, !.after1 = r.jobs,
                                !.ret1 = [inserted |-> r.inserted, updated |-> r.updated]]
    /\ UNCHANGED <<jobs0, log, now, pc, kind, run, st, enr, result, dbFailed, faults, net>>

\* the second call, at time t
StoreSecond(t) ==
    /\ exp.phase = 1
    /\ now' = t
    /\ LET r == storeJobsBasic(jobs, exp.batch, t)
       IN /\ jobs' = r.jobs
          /\ exp' = [exp EXCEPT !.phase = 2,
                                !.ret2 = [inserted |-> r.inserted, updated |-> r.updated]]
    /\ UNCHANGED <<jobs0, log, pc, kind, run, st, enr, result, dbFailed, faults, net>>

NextStore ==
    \/ StoreFirst
    \/ \E t \in now..MaxNow : StoreSecond(t)

SpecStore == InitStore /\ [][NextStore]_vars

----------------------------------------------------------------------------
(* fetchPage called on a series of responses *)

\* no call made yet
NoResponse == [thrown |-> FALSE, ok |-> FALSE, body |-> "none"]

NoFetch == [html |-> NULL, rawText |-> NULL, error |-> NULL, wafBlocked |-> FALSE]

ResponseSeries == UNION {[1..n -> Responses] : n \in 1..MaxFetches}

InitFetch ==
    /\ now = 0
    /\ jobs0 = EmptyTable
    /\ jobs = jobs0
    /\ log = <<>>
    /\ pc = "idle"
    /\ kind = "none"
    /\ run = RunInit
    /\ st = StInit
    /\ enr = EnrInit
    /\ result = NoResult
    /\ dbFailed = FALSE
    /\ faults = 0
    /\ net = NetInit
    /\ exp \in {[pending |-> p, calls |-> 0, resp |-> NoResponse, res |-> NoFetch] :
                    p \in ResponseSeries}

CallFetchPage ==
    /\ exp.pending # <<>>
    /\ exp' = [pending |-> Tail(exp.pending), calls |-> exp.calls + 1,
               resp |-> Head(exp.pending), res |-> fetchPage(Head(exp.pending))]
    /\ net' = Fetched(net)
    /\ UNCHANGED <<jobs, jobs0, log, now, pc, kind, run, st, enr, result, dbFailed, faults>>

NextFetch == CallFetchPage

SpecFetch == InitFetch /\ [][NextFetch]_vars

----------------------------------------------------------------------------
(* Properties of the store *)

\* the columns that can hold NULL
TextColumns == {"title", "location", "job_type", "closing_date", "description",
                "apply_url", "source_url"}

AllColumns == TextColumns \cup {"scraped_at", "updated_at", "is_active"}

BatchGuids(batch) == {batch[i].guid : i \in 1..Len(batch)}

\* C1: storeJobsBasic on a record whose guid is already stored never replaces
\* a non-null value by null in a column other than title, is_active and
\* updated_at: what was non-null before the call is non-null after it.
C1_NoNullOverwrite ==
    exp.phase >= 1 =>
        \A g \in DOMAIN jobs0 :
            \A c \in TextColumns \ {"title"} :
                jobs0[g][c] # NULL => jobs[g][c] # NULL

\* a stored "Douglas" met an incoming null location and is still there
C1_Witness ==
    /\ exp.phase = 1
    /\ Len(exp.batch) = 1
    /\ exp.batch[1].guid \in DOMAIN jobs0
    /\ exp.batch[1].location = NULL
    /\ jobs0[exp.batch[1].guid].location = "Douglas"
    /\ jobs[exp.batch[1].guid].location = "Douglas"

\* the batch has pairwise distinct guids, none of them stored before
FreshBatch ==
    /\ Len(exp.batch) >= 1
    /\ \A i, j \in 1..Len(exp.batch) : i # j => exp.batch[i].guid # exp.batch[j].guid
    /\ BatchGuids(exp.batch) \cap DOMAIN jobs0 = {}

\* C4: storeJobsBasic called twice with one batch of N records with pairwise
\* distinct, unseen guids returns {inserted: N, updated: 0} the first time and
\* {inserted: 0, updated: N} the second time.
C4_CountsOfRepeatedBatch ==
    (exp.phase = 2 /\ FreshBatch) =>
        /\ exp.ret1 = [inserted |-> Len(exp.batch), updated |-> 0]
        /\ exp.ret2 = [inserted |-> 0, updated |-> Len(exp.batch)]

\* C5: storeJobsBasic is idempotent on the stored state: after the second call
\* with the same batch (duplicate guids allowed) every row has the column
\* values it had after the first call, updated_at apart, and there is one row
\* per distinct guid ever stored.
C5_IdempotentState ==
    exp.phase = 2 =>
        /\ DOMAIN jobs = DOMAIN exp.after1
        /\ \A g \in DOMAIN jobs :
               \A c \in AllColumns \ {"updated_at"} : jobs[g][c] = exp.after1[g][c]
        /\ DOMAIN jobs = DOMAIN jobs0 \cup BatchGuids(exp.batch)
        /\ Cardinality(DOMAIN jobs) = Cardinality(DOMAIN jobs0 \cup BatchGuids(exp.batch))

\* a batch naming one guid twice with different locations was stored twice,
\* the second time on a later day
C5_Witness ==
    /\ exp.phase = 2
    /\ Len(exp.batch) = 2
    /\ exp.batch[1].guid = exp.batch[2].guid
    /\ exp.batch[1].location # exp.batch[2].location
    /\ \E g \in DOMAIN jobs : jobs[g].updated_at # exp.after1[g].updated_at

----------------------------------------------------------------------------
(* Properties of the pipeline *)

EnrichStep == pc \in {"enrich", "jobtrain"}

\* C2: the UPDATE of enrichJobDetails never replaces a non-null stored value by
\* null in a column other than description and updated_at; a stored apply_url,
\* location, date ... survives an enrichment whose parse lacks the field.
C2_EnrichKeepsNonNull ==
    [][EnrichStep =>
          \A g \in DOMAIN jobs :
              \A c \in TextColumns \ {"description"} :
                  jobs[g][c] # NULL => jobs'[g][c] # NULL]_vars

\* C3: enrichJobDetails never sets a non-null stored description to null or to
\* the empty string.
C3_DescriptionStaysNonEmpty ==
    [][EnrichStep =>
          \A g \in DOMAIN jobs :
              jobs[g].description # NULL => Truthy(jobs'[g].description)]_vars

Expired(row, t) == row.is_active = 1 /\ DateLess(row.closing_date, DateStr(t))

\* C6: is_active goes from 1 to 0 only in the expiry sweep and only on a row
\* whose closing_date is before the current date; it goes from 0 to 1 only in
\* the upsert of storeJobsBasic; the enrichment UPDATE never changes it.
C6_ActiveTransitions ==
    [][\A g \in DOMAIN jobs :
          /\ (jobs[g].is_active = 1 /\ jobs'[g].is_active = 0)
                 => (pc = "expire" /\ DateLess(jobs[g].closing_date, DateStr(now)))
          /\ (jobs[g].is_active = 0 /\ jobs'[g].is_active = 1)
                 => (pc = "store" /\ jobs'[g].updated_at = st.now)
          /\ EnrichStep => jobs'[g].is_active = jobs[g].is_active]_vars

\* a row swept earlier was upserted again and then enriched while active
C6_Witness ==
    \E g \in DOMAIN jobs0 :
        /\ jobs0[g].is_active = 0
        /\ jobs[g].is_active = 1
        /\ enr.attempted > 0

\* C7: markExpiredJobs deactivates every active row whose closing_date is
\* before the current date, leaves every other row untouched (closing_date
\* today, later or null) and changes no column but is_active and updated_at.
C7_ExpirySweep ==
    [][pc = "expire" =>
          /\ DOMAIN jobs' = DOMAIN jobs
          /\ \A g \in DOMAIN jobs :
                 /\ (Expired(jobs[g], now) /\ ~dbFailed') => jobs'[g].is_active = 0
                 /\ ~Expired(jobs[g], now) => jobs'[g] = jobs[g]
                 /\ \A c \in AllColumns \ {"is_active", "updated_at"} :
                        jobs'[g][c] = jobs[g][c]]_vars

\* the sweep has just deactivated one row and left a row closing today or
\* without a closing date active
C7_Witness ==
    /\ pc = "complete"
    /\ ~dbFailed
    /\ \E g, h \in DOMAIN jobs :
          /\ g \in DOMAIN jobs0 /\ jobs0[g].is_active = 1
          /\ jobs[g].is_active = 0
          /\ DateLess(jobs[g].closing_date, DateStr(now))
          /\ jobs[h].is_active = 1
          /\ ~DateLess(jobs[h].closing_date, DateStr(now))

ScrapeDone == pc = "done" /\ kind = "scrape"

AllBlocked == run.fetchAttempts > 0 /\ run.wafBlocks = run.fetchAttempts

\* the scrape_log row of the run, when it was written, says what was returned
LoggedAs(status, err) ==
    (run.logId # 0 /\ log[run.logId].status # "running") =>
        (log[run.logId].status = status /\ log[run.logId].error_message = err)

\* C8: scrapeJobs ends failed with the all-blocked reason exactly when every
\* listing fetch attempt was classified as an anti-bot block; it then returns
\* success=false with found, inserted and updated zero and has written no
\* jobs row.
C8_AllBlockedFailure ==
    ScrapeDone =>
        /\ (~result.success /\ result.error = "waf") <=> AllBlocked
        /\ AllBlocked =>
               /\ result.found = 0 /\ result.inserted = 0 /\ result.updated = 0
               /\ ~run.wrote /\ jobs = jobs0
               /\ LoggedAs("failed", "waf")

C8_Witness == ScrapeDone /\ result.error = "waf" /\ AllBlocked

\* C9: when a listing fetch succeeded and the parser returned no job over the
\* whole crawl, the run ends failed with the parser reason, also when a later
\* page failed to fetch; the reason is neither the all-blocked nor the
\* high-failure-rate one.
C9_ParserFailure ==
    (ScrapeDone /\ run.fetchSuccesses >= 1 /\ run.totalFound = 0) =>
        /\ ~result.success
        /\ result.error = "parser"
        /\ result.error \notin {"waf", "rate"}
        /\ LoggedAs("failed", "parser")

\* the pages fetched parsed to nothing and the last fetch failed
C9_Witness ==
    /\ ScrapeDone
    /\ result.error = "parser"
    /\ run.fetchSuccesses >= 1
    /\ run.wafBlocks + run.fetchErrors = 1

\* C10: scrapeJobs ends failed only under one of the three conditions of the
\* classification (all attempts blocked; failure rate above 50% with no job
\* found; a successful fetch with no job parsed); every other execution, a
\* raising store or log statement included, ends success or partial.
C10_OnlyThreeFailures ==
    (ScrapeDone /\ ~result.success) =>
        \/ AllBlocked
        \/ (2 * (run.wafBlocks + run.fetchErrors) > run.fetchAttempts
            /\ run.totalFound = 0)
        \/ (run.fetchSuccesses >= 1 /\ run.totalFound = 0)

----------------------------------------------------------------------------
(* Properties of the audit log *)

Finalized(row) ==
    /\ row.status \in {"success", "partial", "failed"}
    /\ row.completed_at # NULL

\* rows scrape_log held before the run started
OldRows == IF jobs0 = EmptyTable THEN 0 ELSE 1

\* C11: every scrapeJobs or enrichJobDetailsOnly run creates one scrape_log row
\* and, before returning, finalizes it once: when the run returns the log has
\* exactly one more row, its status is success, partial or failed and
\* completed_at is set; a finalized row is not written again and no row is
\* ever deleted.
C11_LogLifecycle ==
    [][/\ Len(log') >= Len(log)
       /\ \A i \in 1..Len(log) : Finalized(log[i]) => log'[i] = log[i]
       /\ pc' = "done" =>
              /\ Len(log') = OldRows + 1
              /\ Finalized(log'[Len(log')])]_vars

----------------------------------------------------------------------------
(* Properties of the fetch budget *)

\* the run passes the three failure tests exactly when the crawl found a job:
\* with no job found, a crawl without a successful fetch is all-blocked or
\* all-failed and a crawl with one is a parser failure
Passed == run.totalFound > 0

\* C12: within scrapeJobs the enrichment scheduler is entered if and only if
\* the run passed failure classification with fewer than 40 listing fetch
\* attempts; a run that passed with 40 or more attempts returns without a
\* detail-page or secondary-board fetch, after the expiry sweep, as success.
C12_EnrichmentBudget ==
    [][kind = "scrape" =>
          /\ pc' = "select" <=>
                 (pc = "classify" /\ Passed /\ run.fetchAttempts < 40)
          /\ (pc' = "done" /\ Passed /\ run.fetchAttempts >= 40) =>
                 /\ pc = "complete"
                 /\ net.requests = run.fetchAttempts
                 /\ ~dbFailed => \A g \in DOMAIN jobs : ~Expired(jobs[g], now)
                 /\ result'.success
                 /\ (run.logId # 0 /\ Finalized(log'[run.logId])) =>
                        log'[run.logId].status = "success"]_vars

\* a crawl of 40 pages or more returned success with a row still waiting for
\* its details and a row the sweep of this run deactivated
C12_Witness ==
    /\ ScrapeDone /\ result.success
    /\ run.logId # 0 /\ log[run.logId].status = "success"    /\ run.fetchAttempts >= 40
    /\ \E g \in DOMAIN jobs :
          /\ NeedsDetails(jobs[g])
          /\ g \in DOMAIN jobs0 /\ jobs0[g].is_active = 1 /\ jobs[g].is_active = 0

\* C13: once the outbound fetches of one scrapeJobs run (listing, detail and
\* secondary-board pages together) have reached the budget ceiling of 40, the
\* run issues no further outbound request.
C13_BudgetBoundsRun ==
    [][(kind = "scrape" /\ net.requests >= SkipEnrichmentAt) =>
          net'.requests = net.requests]_vars

----------------------------------------------------------------------------
(* Properties of the request pacing *)

\* C14: between every two consecutive outbound fetches of a run the
\* inter-request delay is slept, also before the fetch that follows a failed
\* detail fetch, before the one that follows a record whose processing raised,
\* and before the first detail fetch after the last listing fetch.
C14_SleepBetweenFetches ==
    [][(net'.requests > net.requests /\ net.requests > 0) => net.slept]_vars

----------------------------------------------------------------------------
(* Properties of the enrichment scheduler *)

\* enrichJobDetails has returned to its caller
EnrichReturned == pc \in {"expire", "finish"} /\ enr.selected # <<>>

\* C15: a failure on one record (detail fetch, secondary fetch, an error raised
\* while persisting) never aborts the batch of enrichJobDetails: the records
\* the selection query returned are attempted one by one in its order, on
\* return attempted is their number, and a failed detail fetch writes nothing
\* to the jobs table.
C15_BatchIsolation ==
    [][/\ (pc' = "enrich" \/ pc' = "jobtrain") =>
              LET done == IF pc' = "enrich" THEN enr'.attempted
                          ELSE enr'.attempted - 1
              IN enr'.queue = SubSeq(enr'.selected, done + 1, Len(enr'.selected))
       /\ (pc \in {"enrich", "jobtrain"} /\ pc' \in {"expire", "finish"}) =>
              /\ enr'.queue = <<>>
              /\ enr'.attempted = Len(enr'.selected)
       /\ (pc = "enrich" /\ enr'.failed > enr.failed) => jobs' = jobs]_vars

\* two records were selected; the first failed (its fetch failed or its UPDATE
\* raised) and the second was attempted and enriched
C15_Witness ==
    /\ EnrichReturned
    /\ Len(enr.selected) = 2
    /\ enr.attempted = 2
    /\ enr.enriched = 1
    /\ jobs[enr.selected[1]].description = NULL
    /\ jobs[enr.selected[2]].description # NULL

\* C16: enrichJobDetails selects at most 100 records per pass, and every
\* selected record is active, has a source_url, and has a description that is
\* null or a stub redirect (names the secondary board's domain in fewer than
\* 500 characters).
C16_SelectionPredicate ==
    [][(pc = "select" /\ pc' # "done") =>
          /\ Len(enr'.selected) <= EnrichLimit
          /\ \A i \in 1..Len(enr'.selected) :
                 LET row == jobs[enr'.selected[i]]
                 IN /\ row.is_active = 1
                    /\ row.source_url # NULL
                    /\ \/ row.description = NULL
                       \/ isJobtrainRedirect(row.description)]_vars

EnrichOnlyDone == pc = "done" /\ kind = "enrich" /\ enr.attempted > 0

\* C17: enrichJobDetailsOnly finalizes its log row as success if every
\* attempted record was enriched, as failed if none of the attempted records
\* was enriched, and as partial otherwise, whether a record failed by its
\* fetch or by an error raised while parsing or persisting.
C17_EnrichOnlyStatus ==
    (EnrichOnlyDone /\ run.logId # 0 /\ Finalized(log[run.logId])) =>
        log[run.logId].status =
            IF enr.enriched = enr.attempted THEN "success"
            ELSE IF enr.enriched = 0 THEN "failed"
            ELSE "partial"

\* the text carries a URL of the secondary board
ContainsBoardUrl(d) == d \in {"stub", "stubSub", "short+footer", "long+footer"}

\* C18: when the detail page of a selected record parses to a stub redirect (a
\* description of fewer than 500 characters that contains a secondary-board
\* URL), enrichJobDetails performs exactly one secondary fetch; when that fetch
\* succeeds and yields a non-empty description, the description stored for the
\* record is the secondary description followed by the attribution footer
\* with that URL, not the stub.
C18_RedirectEnrichment ==
    [][/\ (/\ pc = "enrich"
           /\ enr'.failed = enr.failed
           /\ ContainsBoardUrl(enr'.det.description)
           /\ DescLength(enr'.det.description) < StubThreshold) => pc' = "jobtrain"
       /\ pc = "jobtrain" =>
              /\ net'.requests = net.requests + 1
              /\ pc' # "jobtrain"
              /\ (Truthy(enr'.jt.description) /\ ~dbFailed') =>
                     LET stored == jobs'[Head(enr.queue)].description
                     IN /\ stored = WithFooter(enr'.jt.description)
                        /\ stored # enr.det.description
                        /\ extractJobtrainUrl(stored) =
                               extractJobtrainUrl(enr.det.description)]_vars

----------------------------------------------------------------------------
(* Properties of fetchPage *)

\* a response arrived for the last call
Received == exp.calls > 0 /\ ~exp.resp.thrown

\* the body carries 'Request Rejected' or 'URL was rejected'
BlockSignature(body) == body = "block"

\* C19: fetchPage classifies a response as an anti-bot block (wafBlocked=true)
\* whenever its body contains a block-page signature, whatever the HTTP status
\* of the response, non-2xx statuses included.
C19_BlockWhateverStatus ==
    (Received /\ BlockSignature(exp.resp.body)) => exp.res.wafBlocked

\* C20: fetchPage returns the raw response body as rawText for every outcome in
\* which a response was received (success, anti-bot block, HTTP error), and a
\* non-null html exactly when the outcome is success.  (Of an empty body
\* there is nothing to return, so null for it is not counted against the claim.)
C20_RawTextAlways ==
    Received =>
        /\ Truthy(exp.resp.body) => exp.res.rawText = exp.resp.body
        /\ exp.res.html # NULL <=> (exp.resp.ok /\ ~BlockSignature(exp.resp.body))

----------------------------------------------------------------------------
(* Scrape mode: scraper.js:29-46 and 192-200 *)

\* the scrape_log row of the current run
OwnRow == log[run.logId]

\* the mode a run started with these inputs writes into its row
ModeWritten(expected) ==
    /\ run'.logId = Len(log) + 1
    /\ log'[run'.logId].url_type = expected
    /\ log'[run'.logId].status = "running"
    /\ net' = net /\ net.requests = 0

\* the row of a run in progress keeps its mode
ModeKept ==
    (kind = "scrape" /\ run.logId > 0 /\ pc # "idle")
        => (run'.logId = run.logId /\ log'[run.logId].url_type = OwnRow.url_type)

----------------------------------------------------------------------------
(* Page-by-page storing: scraper.js:50-97 *)

\* the step is a listing fetch that did not deliver a page
ListingFetchFailed ==
    /\ pc = "fetch" /\ pc' = "classify"
    /\ run'.fetchAttempts = run.fetchAttempts + 1
    /\ run'.fetchSuccesses = run.fetchSuccesses

\* every record parsed so far has been handed to the upsert and is counted
StoredSoFar(r, lg) ==
    /\ r.totalInserted + r.totalUpdated = r.totalFound
    /\ lg[r.logId].jobs_found = r.totalFound
    /\ lg[r.logId].jobs_inserted = r.totalInserted
    /\ lg[r.logId].jobs_updated = r.totalUpdated

\* C22: the records parsed from page k are upserted and the running counters
\* of the log row are written before page k+1 is fetched: an upsert that does
\* not raise leaves the record's guid in the table, no step removes a row,
\* and whenever the crawl is about to fetch a page (or has just failed to
\* fetch one) with no statement having raised, the records found so far are
\* all counted as stored, in the run and in its log row; a failed fetch
\* touches neither the table nor the log.
C22_StoreBeforeNextFetch ==
    [][/\ \A job \in PageJobs :
             StoreJob(job, FALSE) => job.guid \in DOMAIN jobs'
       /\ DOMAIN jobs \subseteq DOMAIN jobs'
       /\ (kind' = "scrape" /\ pc' = "fetch" /\ faults' = 0)
             => (st'.pending = 0 /\ StoredSoFar(run', log'))
       /\ ListingFetchFailed
             => /\ jobs' = jobs /\ log' = log
                /\ faults = 0 => StoredSoFar(run', log')]_vars

\* page 1 delivered records into an empty table and the fetch of page 2 failed
C22_Witness ==
    /\ kind = "scrape" /\ pc = "classify"
    /\ run.pageCount = 2 /\ run.fetchSuccesses = 1
    /\ run.totalFound > 0 /\ faults = 0
    /\ jobs0 = EmptyTable /\ DOMAIN jobs # {}
    /\ OwnRow.jobs_found = run.totalFound

----------------------------------------------------------------------------
(* A listing fetch failing after records were found: scraper.js:62-70, 109-173 *)

\* the crawl ended on a failed fetch with records found on earlier pages
FailedAfterJobs(r) == r.wafBlocks + r.fetchErrors > 0 /\ r.totalFound > 0

----------------------------------------------------------------------------
(* utils.js: parseSalaryRange *)

\* the pipeline at rest, for the experiments on single functions
PipelineIdle ==
    /\ now = 0
    /\ jobs0 = EmptyTable
    /\ jobs = jobs0
    /\ log = <<>>
    /\ pc = "idle"
    /\ kind = "none"
    /\ run = RunInit
    /\ st = StInit
    /\ enr = EnrInit
    /\ result = NoResult
    /\ dbFailed = FALSE
    /\ faults = 0
    /\ net = NetInit

PipelineVars == <<jobs, jobs0, log, now, pc, kind, run, st, enr, result, dbFailed, faults, net>>

\* the pound sign
Pound == "GBP"

\* a text is a sequence of characters; "pa" stands for the phrase "per annum"
\* and "ph" for "per hour", which hold no digit and do not start with k
DigitChars == {"0", "1", "2", "3", "4", "5", "6", "7", "8", "9"}

DigitValue(c) ==
    CASE c = "0" -> 0 [] c = "1" -> 1 [] c = "2" -> 2 [] c = "3" -> 3
      [] c = "4" -> 4 [] c = "5" -> 5 [] c = "6" -> 6 [] c = "7" -> 7
      [] c = "8" -> 8 [] c = "9" -> 9

RECURSIVE Concat(_)
Concat(pieces) ==
    IF pieces = <<>> THEN <<>> ELSE Head(pieces) \o Concat(Tail(pieces))

\* toLowerCase() on the characters of the texts
LowerChar(c) == CASE c = "K" -> "k" [] c = "A" -> "a" [] OTHER -> c

\* .toLowerCase().replace(/,/g, "")
RECURSIVE LowerNoCommas(_)
LowerNoCommas(text) ==
    IF text = <<>> THEN <<>>
    ELSE IF Head(text) = "," THEN LowerNoCommas(Tail(text))
    ELSE <<LowerChar(Head(text))>> \o LowerNoCommas(Tail(text))

RECURSIVE TrimLeft(_)
TrimLeft(text) ==
    IF text # <<>> /\ Head(text) = " " THEN TrimLeft(Tail(text)) ELSE text

RECURSIVE TrimRight(_)
TrimRight(text) ==
    IF text # <<>> /\ text[Len(text)] = " "
    THEN TrimRight(SubSeq(text, 1, Len(text) - 1)) ELSE text

Trim(text) == TrimRight(TrimLeft(text))

\* parseFloat of a run of digits
RECURSIVE ParseDigits(_, _)
ParseDigits(ds, acc) ==
    IF ds = <<>> THEN acc
    ELSE ParseDigits(Tail(ds), 10 * acc + DigitValue(Head(ds)))

\* first index from i on that does not hold a character of cs
RECURSIVE RunEnd(_, _, _)
RunEnd(text, i, cs) ==
    IF i <= Len(text) /\ text[i] \in cs THEN RunEnd(text, i + 1, cs) ELSE i

\* /(pound)?([\d.]+)\s*k?/ can match from index i
MatchesAt(text, i) ==
    \/ text[i] \in DigitChars
    \/ text[i] = Pound /\ i + 1 <= Len(text) /\ text[i + 1] \in DigitChars

\* the match starting at i: group 1 is [numStart, numEnd), the match [i, end)
MatchAt(text, i) ==
    LET numStart == IF text[i] = Pound THEN i + 1 ELSE i
        numEnd == RunEnd(text, numStart, DigitChars)
        spaceEnd == RunEnd(text, numEnd, {" "})
        hasK == spaceEnd <= Len(text) /\ text[spaceEnd] = "k"
    IN [start |-> i, numStart |-> numStart, numEnd |-> numEnd,
        end |-> IF hasK THEN spaceEnd + 1 ELSE spaceEnd, k |-> hasK]

\* the matches regex.exec finds in turn, from index i on
RECURSIVE SalaryMatches(_, _)
SalaryMatches(text, i) ==
    IF i > Len(text) THEN <<>>
    ELSE IF ~MatchesAt(text, i) THEN SalaryMatches(text, i + 1)
    ELSE LET m == MatchAt(text, i) IN <<m>> \o SalaryMatches(text, m.end)

SalaryType(text) ==
    LET has(c) == \E i \in 1..Len(text) : text[i] = c
    IN IF has("pa") THEN "annual" ELSE IF has("ph") THEN "hourly" ELSE NULL

\* null in a numeric field of the result
NullNumber == -1

\* the value pushed for a match: the character after the match (the last one
\* of the text when the match ends the text) decides on the factor
SalaryValue(text, m, type) ==
    LET value == ParseDigits(SubSeq(text, m.numStart, m.numEnd - 1), 0)
        last == IF m.end <= Len(text) THEN m.end ELSE Len(text)
        \* text.substring(match.index, match.index + match[0].length + 1)
        fullMatch == SubSeq(text, m.start, last)
    IN IF fullMatch[Len(fullMatch)] = "k" THEN value * 1000
       ELSE IF value < 1000 /\ type = "annual" THEN value * 1000
       ELSE value

SalaryNumbers(text, type) ==
    LET ms == SalaryMatches(text, 1)
    IN [i \in 1..Len(ms) |-> SalaryValue(text, ms[i], type)]

Least(ns) == CHOOSE n \in {ns[i] : i \in 1..Len(ns)} : \A j \in 1..Len(ns) : n <= ns[j]

Greatest(ns) == CHOOSE n \in {ns[i] : i \in 1..Len(ns)} : \A j \in 1..Len(ns) : n >= ns[j]

parseSalaryRange(salaryText) ==
    IF salaryText = <<>>
    THEN [min |-> NullNumber, max |-> NullNumber, type |-> NULL]
    ELSE LET text == Trim(LowerNoCommas(salaryText))
             type == SalaryType(text)
             numbers == SalaryNumbers(text, type)
         IN IF numbers = <<>>
            THEN [min |-> NullNumber, max |-> NullNumber, type |-> type]
            ELSE [min |-> Least(numbers), max |-> Greatest(numbers),
                  type |-> IF type = NULL THEN "annual" ELSE type]

\* the pieces salary texts are put together from
SalaryPieces ==
    {<<Pound, "2", "5">>, <<Pound, "3", "0">>, <<"k">>, <<"K">>, <<"-">>,
     <<" ">>, <<",">>, <<"pa">>}

MaxSalaryPieces == 5

SalaryTexts == {Concat(p) : p \in UNION {[1..n -> SalaryPieces] : n \in 0..MaxSalaryPieces}}

NoSalary == [min |-> NullNumber, max |-> NullNumber, type |-> NULL]

InitSalary ==
    /\ PipelineIdle
    /\ exp \in {[text |-> t, parsed |-> FALSE, res |-> NoSalary] : t \in SalaryTexts}

CallParseSalaryRange ==
    /\ ~exp.parsed
    /\ exp' = [exp EXCEPT !.parsed = TRUE, !.res = parseSalaryRange(exp.text)]
    /\ UNCHANGED PipelineVars

NextSalary == CallParseSalaryRange

SpecSalary == InitSalary /\ [][NextSalary]_vars

\* the numeric tokens of the normalised text, each with whether a k follows
\* its digits immediately
KTokens(text) ==
    LET t == Trim(LowerNoCommas(text))
        ms == SalaryMatches(t, 1)
    IN {[value |-> ParseDigits(SubSeq(t, ms[i].numStart, ms[i].numEnd - 1), 0),
         k |-> ms[i].numEnd <= Len(t) /\ t[ms[i].numEnd] = "k"] : i \in 1..Len(ms)}

\* C24: parseSalaryRange multiplies by 1000 every numeric token immediately
\* suffixed with k, wherever the token stands in the text: no value below
\* 1000 comes out of a text all of whose tokens carry the suffix, and
\* the text (pound)25k-(pound)30k yields min 25000, max 30000, type "annual".
C24_KSuffixEverywhere ==
    exp.parsed =>
        /\ (KTokens(exp.text) # {} /\ \A tok \in KTokens(exp.text) : tok.k)
              => LET vs == {tok.value : tok \in KTokens(exp.text)}
                 IN /\ exp.res.min = 1000 * (CHOOSE v \in vs : \A w \in vs : v <= w)
                    /\ exp.res.max = 1000 * (CHOOSE v \in vs : \A w \in vs : v >= w)
        /\ exp.text = <<Pound, "2", "5", "k", "-", Pound, "3", "0", "k">>
              => exp.res = [min |-> 25000, max |-> 30000, type |-> "annual"]

----------------------------------------------------------------------------
(* utils.js: generateJobGuid *)

\* charCodeAt() on the characters of the URLs
CharCode(c) ==
    CASE c = "a" -> 97 [] c = "A" -> 65 [] c = "/" -> 47 [] c = " " -> 32
      [] c = "b" -> 98 [] c = "c" -> 99 [] c = "d" -> 100 [] c = "e" -> 101
      [] c = "g" -> 103 [] c = "h" -> 104 [] c = "i" -> 105 [] c = "j" -> 106
      [] c = "m" -> 109 [] c = "o" -> 111 [] c = "p" -> 112 [] c = "r" -> 114
      [] c = "s" -> 115 [] c = "t" -> 116 [] c = "v" -> 118 [] c = "w" -> 119
      [] c = "." -> 46 [] c = ":" -> 58 [] c = "=" -> 61 [] c = "?" -> 63
      [] c = "1" -> 49 [] c = "2" -> 50

\* toLowerCase() on a text
LowerCase(text) == [i \in 1..Len(text) |-> LowerChar(text[i])]

\* a 32-bit integer in two 16-bit halves (two's complement)
HashZero == [hi |-> 0, lo |-> 0]

\* hash = ((hash << 5) - hash) + char; hash = hash & hash
HashStep(h, code) ==
    LET lo31 == 31 * h.lo + code
        hi31 == 31 * h.hi + (lo31 \div 65536)
    IN [hi |-> hi31 % 65536, lo |-> lo31 % 65536]

\* the loop over the characters of str, started from h; each step leaves
\* the two halves within 16 bits
RECURSIVE HashOf(_, _)
HashOf(str, h) ==
    IF str = <<>> THEN h
    ELSE LET next == HashStep(h, CharCode(Head(str)))
         IN CASE next.hi \in 0..65535 /\ next.lo \in 0..65535 ->
                    HashOf(Tail(str), next)

IsNegative(h) == h.hi >= 32768

\* Math.abs(hash): the magnitude, up to 2^31
Abs32(h) ==
    IF ~IsNegative(h) THEN h
    ELSE [hi |-> 65536 - h.hi - (IF h.lo = 0 THEN 0 ELSE 1),
          lo |-> (65536 - h.lo) % 65536]

\* toString(36): the digits in base 36, most significant first
RECURSIVE ToBase36(_, _)
ToBase36(hi, lo) ==
    IF hi = 0 /\ lo < 36 THEN <<lo>>
    ELSE LET mid == (hi % 36) * 65536 + lo
         IN ToBase36(hi \div 36, mid \div 36) \o <<mid % 36>>

\* generateJobGuid with lower-casing left out
generateJobGuid_CaseSensitive(sourceUrl, clock, random) ==
    IF sourceUrl = <<>>
    THEN [prefix |-> "job-", body |-> <<clock, random>>]
    ELSE LET str == Trim(sourceUrl)
             magnitude == Abs32(HashOf(str, HashZero))
         IN [prefix |-> "iom-gov-", body |-> ToBase36(magnitude.hi, magnitude.lo)]

\* clock and random are what Date.now() and Math.random() give the call
generateJobGuid(sourceUrl, clock, random) ==
    IF sourceUrl = <<>>
    THEN [prefix |-> "job-", body |-> <<clock, random>>]
    ELSE LET str == Trim(LowerCase(sourceUrl))
             magnitude == Abs32(HashOf(str, HashZero))
         IN [prefix |-> "iom-gov-", body |-> ToBase36(magnitude.hi, magnitude.lo)]

MaxUrlLen == 6

UrlChars == {"a", "A", "/", " "}

UrlTexts == UNION {[1..n -> UrlChars] : n \in 0..MaxUrlLen}

Clocks == {1, 2}

Randoms == {1, 2}

NoGuid == [prefix |-> "none", body |-> <<>>]

InitGuid ==
    /\ PipelineIdle
    /\ exp \in {[url |-> u, called |-> FALSE, first |-> NoGuid, second |-> NoGuid,
                 normal |-> NoGuid] : u \in UrlTexts}

\* two calls on the URL and one on its lower-cased, trimmed form
CallGenerateJobGuid ==
    /\ ~exp.called
    /\ \E t1, t2, t3 \in Clocks, r1, r2, r3 \in Randoms :
          /\ t1 <= t2 /\ t2 <= t3
          /\ exp' = [exp EXCEPT !.called = TRUE,
                        !.first = generateJobGuid(exp.url, t1, r1),
                        !.second = generateJobGuid(exp.url, t2, r2),
                        !.normal = generateJobGuid(Trim(LowerCase(exp.url)), t3, r3)]
    /\ UNCHANGED PipelineVars

NextGuid == CallGenerateJobGuid

SpecGuid == InitGuid /\ [][NextGuid]_vars

----------------------------------------------------------------------------
(* rateLimiter.js: checkRateLimit *)

\* config.js: RATE_LIMIT_DEFAULTS
RATE_LIMIT_DEFAULTS ==
    [api |-> [maxRequests |-> 60, windowSeconds |-> 60],
     ask |-> [maxRequests |-> 10, windowSeconds |-> 86400]]

TIERS == RATE_LIMIT_DEFAULTS

\* expirationTtl of every put
ExpirationTtl ==
    IF TIERS.api.windowSeconds >= TIERS.ask.windowSeconds
    THEN TIERS.api.windowSeconds ELSE TIERS.ask.windowSeconds

\* the entry of one client IP in the KV namespace; present is false when the
\* key was never written
NoEntry == [present |-> FALSE, expires |-> 0,
            api |-> [count |-> 0, windowStart |-> 0],
            ask |-> [count |-> 0, windowStart |-> 0]]

\* env.RATE_LIMITER.get: an entry past its expiration reads as null
KvLive(kv, clock) == kv.present /\ clock < kv.expires

\* env.RATE_LIMITER.put
KvPut(api, ask, clock) ==
    [present |-> TRUE, expires |-> clock + ExpirationTtl, api |-> api, ask |-> ask]

Granted(tc, remaining, resetIn) ==
    [allowed |-> TRUE, remaining |-> remaining, resetIn |-> resetIn,
     limit |-> tc.maxRequests]

Denied(tc, resetIn) ==
    [allowed |-> FALSE, remaining |-> 0, resetIn |-> resetIn, limit |-> tc.maxRequests]

\* the limit test with count > maxRequests
OverLimit_Strict(count, tc) == count > tc.maxRequests

\* rateLimiter.js:74
OverLimit(count, tc) == count >= tc.maxRequests

\* checkRateLimit for one IP at second clock; fault: the KV call raises
checkRateLimit(kv, clock, tier, fault) ==
    LET tc == TIERS[tier]
        first == [count |-> 1, windowStart |-> clock]
        defaultTierData == [count |-> 0, windowStart |-> clock]
    IN IF fault
       THEN [kv |-> kv, res |-> Granted(tc, tc.maxRequests - 1, tc.windowSeconds)]
       ELSE IF ~KvLive(kv, clock)
       THEN [kv |-> KvPut(IF tier = "api" THEN first ELSE defaultTierData,
                          IF tier = "ask" THEN first ELSE defaultTierData, clock),
             res |-> Granted(tc, tc.maxRequests - 1, tc.windowSeconds)]
       ELSE LET tierData == kv[tier]
                put(td) == KvPut(IF tier = "api" THEN td ELSE kv.api,
                                 IF tier = "ask" THEN td ELSE kv.ask, clock)
                resetIn == tc.windowSeconds - (clock - tierData.windowStart)
            IN IF clock - tierData.windowStart >= tc.windowSeconds
               THEN [kv |-> put(first),
                     res |-> Granted(tc, tc.maxRequests - 1, tc.windowSeconds)]
               ELSE IF OverLimit(tierData.count, tc)
               THEN [kv |-> kv, res |-> Denied(tc, resetIn)]
               ELSE [kv |-> put([tierData EXCEPT !.count = @ + 1]),
                     res |-> Granted(tc, tc.maxRequests - tierData.count - 1, resetIn)]

MaxCalls == 11

\* seconds between two calls
Gaps == {0, TIERS.ask.windowSeconds - 1, TIERS.ask.windowSeconds}

NoRateResult == [allowed |-> FALSE, remaining |-> 0, resetIn |-> 0, limit |-> 0]

\* grants: the seconds at which the ask calls allowed so far in the stored
\* window were made
InitRate ==
    /\ PipelineIdle
    /\ exp = [clock |-> 0, kv |-> NoEntry, calls |-> 0, tier |-> "none",
              res |-> NoRateResult, grants |-> <<>>]

CallCheckRateLimit(tier, gap) ==
    /\ exp.calls < MaxCalls
    /\ LET clock == exp.clock + gap
           r == checkRateLimit(exp.kv, clock, tier, FALSE)
           InWindow(t) == t >= r.kv.ask.windowStart
           granted == IF tier = "ask" /\ r.res.allowed
                      THEN Append(exp.grants, clock) ELSE exp.grants
       IN exp' = [clock |-> clock, kv |-> r.kv, calls |-> exp.calls + 1,
                  tier |-> tier, res |-> r.res,
                  grants |-> SelectSeq(granted, InWindow)]
    /\ UNCHANGED PipelineVars

NextRate == \E tier \in {"api", "ask"}, gap \in Gaps : CallCheckRateLimit(tier, gap)

SpecRate == InitRate /\ [][NextRate]_vars

\* the allowed ask calls made within the window that starts at the stored
\* windowStart
GrantsInWindow(e) ==
    {i \in 1..Len(e.grants) :
        /\ e.grants[i] >= e.kv.ask.windowStart
        /\ e.grants[i] < e.kv.ask.windowStart + TIERS.ask.windowSeconds}

\* C26: with the KV store working and the calls of one IP running one after
\* another, at most maxRequests (10) ask calls are allowed within the window
\* of windowSeconds that starts at the stored windowStart, and a denied call
\* leaves the stored entry as it was.
C26_AskLimit ==
    [][/\ Cardinality(GrantsInWindow(exp')) <= TIERS.ask.maxRequests
       /\ exp'.kv.ask.count <= TIERS.ask.maxRequests
       /\ ~exp'.res.allowed => exp'.kv = exp.kv]_vars

\* the eleventh ask call of a window was denied
C26_Witness ==
    /\ exp.tier = "ask" /\ ~exp.res.allowed
    /\ Len(exp.grants) = TIERS.ask.maxRequests
    /\ exp.calls > TIERS.ask.maxRequests

----------------------------------------------------------------------------
(* Updates of storeJobsBasic, column by column: scraper.js:248-272 *)

\* the columns of a listing record other than guid and source_url
ListingColumns == {"title", "location", "job_type", "closing_date"}

\* record i of the batch is the last one for its guid, and its guid was
\* stored before it: in the table the call found, or by an earlier record
LastUpdate(i) ==
    /\ \A j \in 1..Len(exp.batch) : j > i => exp.batch[j].guid # exp.batch[i].guid
    /\ \/ exp.batch[i].guid \in DOMAIN jobs0
       \/ \E j \in 1..Len(exp.batch) : j < i /\ exp.batch[j].guid = exp.batch[i].guid

\* C27: on an update of an existing guid, storeJobsBasic overwrites the stored
\* value with the incoming one whenever the incoming one is non-null, in
\* every column a listing record carries other than guid, source_url and
\* scraped_at.
C27_NonNullOverwrites ==
    exp.phase = 1 =>
        \A i \in 1..Len(exp.batch) :
            LastUpdate(i) =>
                \A c \in ListingColumns :
                    exp.batch[i][c] # NULL => jobs[exp.batch[i].guid][c] = exp.batch[i][c]

----------------------------------------------------------------------------
(* parser.js: parsePagination and normalizeUrl *)

\* a URL is a sequence of pieces; null and the empty string are the empty
\* sequence
NoUrl == <<>>

Host == "services.gov.im"

Hrefs ==
    {<<"https://", Host, "/", "jobs?page=2">>, <<"//", Host, "/", "jobs?page=2">>,
     <<"/", "jobs?page=2">>, <<"jobs?page=2">>}

\* parser.js:662-685
normalizeUrl(url) ==
    IF url = NoUrl THEN NoUrl
    ELSE IF Head(url) \in {"http://", "https://"} THEN url
    ELSE IF Head(url) = "//" THEN <<"https:">> \o url
    ELSE IF Head(url) = "/" THEN <<"https://", Host>> \o url
    ELSE <<"https://", Host, "/">> \o url

MaxPageNo == 6

\* what a listing page holds for parsePagination: the href of the first link
\* one of the "next" patterns matches (NoUrl when none does), and the numbers
\* of a "page X of Y" string (of.found false when there is none)
NoPageOf == [found |-> FALSE, x |-> 0, y |-> 0]

PaginationPages ==
    {[next |-> n, of |-> o] :
        n \in Hrefs \cup {NoUrl},
        o \in {NoPageOf} \cup [found : {TRUE}, x : 0..MaxPageNo, y : 0..MaxPageNo]}

\* parser.js:624-657
parsePagination(html) ==
    LET linked == [currentPage |-> 1, totalPages |-> 1,
                   nextUrl |-> IF html.next # NoUrl THEN normalizeUrl(html.next) ELSE NoUrl,
                   hasMore |-> html.next # NoUrl]
    IN IF html.of.found
       THEN [linked EXCEPT !.currentPage = html.of.x, !.totalPages = html.of.y,
                           !.hasMore = html.of.x < html.of.y]
       ELSE linked

\* the test of the crawl loop, scraper.js:91
FollowsNext(pagination) == pagination.hasMore /\ pagination.nextUrl # NoUrl

NoPagination == [currentPage |-> 0, totalPages |-> 0, nextUrl |-> NoUrl, hasMore |-> FALSE]

InitPagination ==
    /\ PipelineIdle
    /\ exp \in {[html |-> p, parsed |-> FALSE, pagination |-> NoPagination,
                 follows |-> FALSE] : p \in PaginationPages}

CallParsePagination ==
    /\ ~exp.parsed
    /\ LET pagination == parsePagination(exp.html)
       IN exp' = [exp EXCEPT !.parsed = TRUE, !.pagination = pagination,
                             !.follows = FollowsNext(pagination)]
    /\ UNCHANGED PipelineVars

NextPagination == CallParsePagination

SpecPagination == InitPagination /\ [][NextPagination]_vars

\* C28: the two signals of parsePagination are independent: hasMore and
\* nextUrl are set exactly when a next link was found, a "page X of Y" string
\* only fills currentPage and totalPages, and the crawl follows a next page
\* exactly when a next link was found.
C28_IndependentSignals ==
    exp.parsed =>
        /\ exp.pagination.hasMore <=> exp.html.next # NoUrl
        /\ exp.pagination.nextUrl # NoUrl <=> exp.html.next # NoUrl
        /\ exp.html.of.found =>
              /\ exp.pagination.currentPage = exp.html.of.x
              /\ exp.pagination.totalPages = exp.html.of.y
        /\ exp.follows <=> exp.html.next # NoUrl

----------------------------------------------------------------------------
(* The listing crawl on its own: scraper.js:46-97. Every await of the loop   *)
(* returns (a fetch that fails returns a result without html), so a crawl   *)
(* that can take a step takes one; the database statements do not raise     *)

NextListing ==
    \/ \E f \in BOOLEAN : StartScrape(f, FALSE, FALSE)
    \/ \E resp \in Responses, n \in {0, MaxBatch}, m \in BOOLEAN :
           FetchListing(resp, n, m, MaxCrawlPages)
    \/ \E job \in CrawlJobs : StoreJob(job, FALSE)
    \/ StoreDone(FALSE)

\* the crawl starts on an empty table
InitListing == Init /\ now = 0 /\ jobs0 = EmptyTable

SpecListing == InitListing /\ [][NextListing]_vars /\ WF_vars(NextListing)

----------------------------------------------------------------------------
(* The merge of the secondary parse on its own: scraper.js:361-397 *)

\* primary parses with each label row present or missing on its own
MergeDetails ==
    [description : DetailDescriptions,
     apply_url : {NULL, "https://services.gov.im/apply"},
     location : {NULL, "Peel"},
     job_type : {NULL, "permanent"},
     closing_date : {NULL, DateStr(0)},
     salary : {NULL, "25000 per annum"}]

\* secondary parses, their fields differing from the primary ones
MergeJobtrains ==
    [description : JobtrainDescriptions,
     location : {NULL, "Douglas"},
     job_type : {NULL, "temporary"},
     closing_date : {NULL, DateStr(MaxNow)},
     salary : {NULL, "30000 per annum"}]

InitMerge ==
    /\ PipelineIdle
    /\ exp \in {[det |-> d, jt |-> jt, merged |-> NoDetail, done |-> FALSE] :
                    d \in MergeDetails, jt \in MergeJobtrains}

\* the secondary page was fetched: scraper.js:364-397
CallMerge ==
    /\ ~exp.done
    /\ exp' = [exp EXCEPT !.done = TRUE,
                  !.merged = IF /\ isJobtrainRedirect(exp.det.description)
                                /\ extractJobtrainUrl(exp.det.description) # NULL
                             THEN mergeJobtrain(exp.det, exp.jt)
                             ELSE exp.det]
    /\ UNCHANGED PipelineVars

NextMerge == CallMerge

SpecMerge == InitMerge /\ [][NextMerge]_vars

\* the fields the merge takes from the secondary parse at lower priority
MergedFields == {"salary", "location", "job_type", "closing_date"}

\* C30: when the secondary-board parse is merged into the primary detail
\* parse, a secondary salary, job_type, closing_date or location (and the
\* board URL as apply_url) is used only where the primary parse has no
\* value; a value of the primary parse is never replaced, except the
\* description, which the secondary content with its footer replaces.
C30_PrimaryWins ==
    exp.done =>
        /\ \A f \in MergedFields :
              /\ Truthy(exp.det[f]) => exp.merged[f] = exp.det[f]
              /\ exp.merged[f] # exp.det[f]
                    => /\ exp.merged[f] = exp.jt[f]
                       /\ Truthy(exp.jt.description)
        /\ Truthy(exp.det.apply_url) => exp.merged.apply_url = exp.det.apply_url
        /\ exp.merged.apply_url # exp.det.apply_url => exp.merged.apply_url = JobtrainUrl
        /\ exp.merged.description # exp.det.description
              => exp.merged.description = WithFooter(exp.jt.description)

\* a primary parse with a location and no job_type met a secondary parse with
\* both: the location stayed, the job_type and the description were taken over
C30_Witness ==
    /\ exp.done
    /\ exp.det.location = "Peel" /\ exp.jt.location = "Douglas"
    /\ exp.merged.location = "Peel"
    /\ exp.det.job_type = NULL /\ exp.merged.job_type = "temporary"
    /\ exp.det.description = "stub"
    /\ exp.merged.description = WithFooter(exp.jt.description)

----------------------------------------------------------------------------
(* llm.js: makeLLMRequest and executeWithRetry *)

\* what one request to the LLM API meets: the request is aborted by the
\* timeout, fetch throws, or a response arrives with a status and a content
LlmResponses ==
    [kind : {"abort", "network"}, status : {0}, content : {NULL}] \cup
    [kind : {"http"}, status : {200, 400, 401, 403, 429, 500, 503},
     content : {NULL, "{}", "text"}]

NoFlags == [isRateLimit |-> FALSE, isAuthError |-> FALSE, isServerError |-> FALSE,
            isTimeout |-> FALSE]

LlmThrow(flags) == [thrown |-> TRUE, error |-> flags, value |-> NULL]

\* JSON.parse of the contents named above
IsJson(content) == content = "{}"

\* llm.js:8-79
makeLLMRequest(resp, parseAsJson) ==
    IF resp.kind = "abort" THEN LlmThrow([NoFlags EXCEPT !.isTimeout = TRUE])
    ELSE IF resp.kind = "network" THEN LlmThrow(NoFlags)
    ELSE IF resp.status = 429 THEN LlmThrow([NoFlags EXCEPT !.isRateLimit = TRUE])
    ELSE IF resp.status \in {401, 403} THEN LlmThrow([NoFlags EXCEPT !.isAuthError = TRUE])
    ELSE IF resp.status >= 500 THEN LlmThrow([NoFlags EXCEPT !.isServerError = TRUE])
    ELSE IF ~(resp.status >= 200 /\ resp.status <= 299) THEN LlmThrow(NoFlags)
    ELSE IF ~Truthy(resp.content) THEN LlmThrow(NoFlags)
    ELSE IF parseAsJson /\ ~IsJson(resp.content) THEN LlmThrow(NoFlags)
    ELSE [thrown |-> FALSE, error |-> NoFlags, value |-> resp.content]

\* the retry test without the isServerError conjunct
ShouldRetry_AnyError(attempt, maxRetries, error) == attempt < maxRetries

\* llm.js:135
ShouldRetry(attempt, maxRetries, error) == attempt < maxRetries /\ error.isServerError

\* the body of the loop for one outcome of makeLLMRequest: llm.js:122-143
AfterAttempt(attempt, maxRetries, r) ==
    IF ~r.thrown THEN "returned"
    ELSE IF r.error.isRateLimit \/ r.error.isAuthError THEN "thrown"
    ELSE IF ShouldRetry(attempt, maxRetries, r.error) THEN "retry"
    ELSE "thrown"

MaxRetriesBound == 2

NoLlmResult == [thrown |-> FALSE, error |-> NoFlags, value |-> NULL]

NoLlmResponse == [kind |-> "none", status |-> 0, content |-> NULL]

\* LLM_MAX_RETRIES is parsed from the environment: any integer, -1 included
RetrySettings == (0 - 1)..MaxRetriesBound

\* requests counts the calls of fetch, slept tells that sleep(1000) ran since
\* the last of them
InitRetry ==
    /\ PipelineIdle
    /\ exp \in {[maxRetries |-> m, parseAsJson |-> j, attempt |-> 0, requests |-> 0,
                 phase |-> "loop", last |-> NoLlmResult, resp |-> NoLlmResponse,
                 slept |-> FALSE] :
                    m \in RetrySettings, j \in BOOLEAN}

\* one pass of the loop of executeWithRetry: llm.js:121-144
LlmAttempt(resp) ==
    /\ exp.phase = "loop"
    /\ exp.attempt <= exp.maxRetries
    /\ LET r == makeLLMRequest(resp, exp.parseAsJson)
           next == AfterAttempt(exp.attempt, exp.maxRetries, r)
       IN exp' = [exp EXCEPT !.requests = @ + 1,
                             !.last = r,
                             !.resp = resp,
                             !.attempt = IF next = "retry" THEN @ + 1 ELSE @,
                             !.slept = next = "retry",
                             !.phase = IF next = "retry" THEN "loop" ELSE next]
    /\ UNCHANGED PipelineVars

\* the loop ended without a pass returning or throwing: throw lastError,
\* llm.js:145
LlmExhausted ==
    /\ exp.phase = "loop"
    /\ exp.attempt > exp.maxRetries
    /\ exp' = [exp EXCEPT !.phase = "thrown"]
    /\ UNCHANGED PipelineVars

NextRetry ==
    \/ \E resp \in LlmResponses : LlmAttempt(resp)
    \/ LlmExhausted

SpecRetry == InitRetry /\ [][NextRetry]_vars

\* C31: executeWithRetry issues at most maxRetries + 1 requests per call; a
\* further request follows only a request that failed with a server error
\* (status 500 or above), with fewer than maxRetries retries made; and a
\* rate-limit, authentication, timeout or other failure is propagated by the
\* attempt that met it.
C31_RetryOnServerErrorOnly ==
    [][/\ exp'.requests <= exp'.maxRetries + 1
       /\ (exp'.requests > exp.requests /\ exp.requests > 0)
             => /\ exp.last.thrown /\ exp.last.error.isServerError
                /\ exp.requests - 1 < exp.maxRetries
                /\ exp.slept
       /\ (exp'.last.thrown /\ ~exp'.last.error.isServerError)
             => exp'.phase = "thrown"
       /\ ~exp'.last.thrown /\ exp'.requests > 0 => exp'.phase = "returned"]_vars

\* a server error was retried and the retry met a timeout, which was thrown
C31_Witness ==
    /\ exp.requests = 2 /\ exp.phase = "thrown"
    /\ exp.last.error.isTimeout
    /\ exp.maxRetries = 2

----------------------------------------------------------------------------
(* The fetch statistics of the crawl: scraper.js:50-97, 121-132 *)

----------------------------------------------------------------------------
(* The counters enrichJobDetails returns *)

\* C33: when enrichJobDetails returns, attempted = enriched + failed: every
\* attempted record is counted as enriched or as failed, a record whose
\* parsing or persisting raised an error included.
C33_CountersAddUp ==
    pc \in {"expire", "finish"} => enr.attempted = enr.enriched + enr.failed


----------------------------------------------------------------------------
(* A run over a table of two listed records *)

\* two records an earlier crawl listed and no pass has enriched yet
TwoListed == [g \in Guids |-> [ListedRow EXCEPT !.source_url = SourceUrl(g)]]

InitCatchUp ==
    /\ now = 0
    /\ jobs0 = TwoListed
    /\ jobs = jobs0
    /\ log = <<OldLogRow>>
    /\ pc = "idle"
    /\ kind = "none"
    /\ run = RunInit
    /\ st = StInit
    /\ enr = EnrInit
    /\ result = NoResult
    /\ dbFailed = FALSE
    /\ faults = 0
    /\ exp = ExpInit
    /\ net = NetInit

SpecCatchUp == InitCatchUp /\ [][Next]_vars

----------------------------------------------------------------------------
(* Convergence of the enrichment of one record *)

\* the description is secondary-board content followed by the attribution footer
FromSecondary(d) == d \in {WithFooter(x) : x \in JobtrainDescriptions \ {NULL}}

\* C35: once enrichJobDetails has stored for a record a non-empty description
\* taken from the secondary board (its content plus the attribution footer),
\* the record no longer satisfies the selection predicate, so no later
\* enrichment pass selects it.
C35_SecondaryDescriptionConverges ==
    \A g \in DOMAIN jobs :
        FromSecondary(jobs[g].description) => ~NeedsDetails(jobs[g])


----------------------------------------------------------------------------
(* Repeated enrichment passes over a table larger than one batch *)

MaxRows == 101        \* stored records, one more than a batch holds

\* the stored records, newest last: record r was first seen at time r
ListedRows ==
    [r \in 1..MaxRows |-> [ListedRow EXCEPT !.closing_date = NULL,
                                            !.scraped_at = r, !.updated_at = r]]

\* ORDER BY scraped_at DESC LIMIT limit over the candidates cand, whose
\* scraped_at values differ: the i-th result has i - 1 newer candidates
NewestFirst(tbl, cand, limit) ==
    LET newer(g) == {h \in cand : tbl[h].scraped_at > tbl[g].scraped_at}
        n == IF Cardinality(cand) < limit THEN Cardinality(cand) ELSE limit
    IN [i \in 1..n |-> CHOOSE g \in cand : Cardinality(newer(g)) = i - 1]

\* the selection query of enrichJobDetails (scraper.js:324-332)
jobsNeedingDetails(tbl) ==
    NewestFirst(tbl, {g \in DOMAIN tbl : NeedsDetails(tbl[g])}, EnrichLimit)

\* the detail page of record r: the exp.blank newest records have a page
\* without a description row, the others a page with a full description
DetailPage(r) ==
    IF r > MaxRows - exp.blank THEN NoDetail
    ELSE [NoDetail EXCEPT !.description = "plain",
                          !.apply_url = "https://services.gov.im/apply"]

PageResponse == [thrown |-> FALSE, ok |-> TRUE, body |-> "page"]

InitPasses ==
    /\ now = MaxRows + 1
    /\ jobs0 = ListedRows
    /\ jobs = jobs0
    /\ log = <<OldLogRow>>
    /\ pc = "idle"
    /\ kind = "none"
    /\ run = RunInit
    /\ st = StInit
    /\ enr = EnrInit
    /\ result = NoResult
    /\ dbFailed = FALSE
    /\ faults = 0
    /\ exp \in [blank : {0, 1, EnrichLimit}]
    /\ net = NetInit

\* a pass starts: the selection query
PassSelect ==
    /\ pc = "idle"
    /\ LET q == jobsNeedingDetails(jobs)
       IN /\ enr' = [EnrInit EXCEPT !.selected = q, !.queue = q]
          /\ pc' = AfterEnrich(q)
    /\ net' = NetInit
    /\ UNCHANGED <<jobs, jobs0, log, now, kind, run, st, result, dbFailed, faults, exp>>

\* one iteration of the loop, the fetch succeeding and no statement raising
PassEnrich == EnrichOne(PageResponse, DetailPage(Head(enr.queue)), FALSE)

\* enrichJobDetails returns; the next pass may start
PassReturn ==
    /\ pc = "finish"
    /\ pc' = "idle"
    /\ UNCHANGED <<jobs, jobs0, log, now, kind, run, st, enr, result, dbFailed,
                   faults, exp, net>>

NextPasses == PassSelect \/ PassEnrich \/ PassReturn

SpecPasses == InitPasses /\ [][NextPasses]_vars /\ WF_vars(NextPasses)

\* record r was attempted by some pass: with every fetch succeeding and no
\* statement raising, an attempt ends in the UPDATE, which stamps updated_at
Attempted(r) == jobs[r].updated_at = now

\* C36: under repeated enrichment passes in which every fetch succeeds, every
\* stored record with a source_url and a null description is eventually
\* attempted by some pass; records that stay without a description cannot
\* occupy the batch of 100 newest-first slots forever.
C36_NoStarvation ==
    <>(\A r \in 1..MaxRows : Attempted(r))


----------------------------------------------------------------------------
(* Columns written once *)

\* C37: once a row is inserted, no later statement (upsert of the same guid,
\* enrichment UPDATE, expiry sweep) changes its guid, source_url or
\* scraped_at, so scraped_at stays the first-seen time; a newly inserted row
\* has is_active = 1 and scraped_at = updated_at.
C37_WrittenOnce ==
    [][/\ \A g \in DOMAIN jobs :
              /\ g \in DOMAIN jobs'
              /\ jobs'[g].source_url = jobs[g].source_url
              /\ jobs'[g].scraped_at = jobs[g].scraped_at
       /\ \A g \in DOMAIN jobs' \ DOMAIN jobs :
              /\ jobs'[g].is_active = 1
              /\ jobs'[g].scraped_at = jobs'[g].updated_at]_vars

\* a row first seen on day 0 was upserted and enriched on a later day, next to
\* a row inserted by this run
C37_Witness ==
    /\ pc = "done" /\ kind = "scrape" /\ result.success
    /\ \E g \in DOMAIN jobs0 :
          /\ jobs[g].scraped_at = 0 /\ jobs[g].updated_at > 0
          /\ jobs[g].description # jobs0[g].description
    /\ \E g \in DOMAIN jobs : g \notin DOMAIN jobs0


----------------------------------------------------------------------------
(* parser.js: the guid of a listing record in the two listing strategies *)

\* the characters of the pieces hrefs are made of
PieceChars(piece) ==
    CASE piece = "https://" -> <<"h", "t", "t", "p", "s", ":", "/", "/">>
      [] piece = "https:" -> <<"h", "t", "t", "p", "s", ":">>
      [] piece = "//" -> <<"/", "/">>
      [] piece = "/" -> <<"/">>
      [] piece = Host -> <<"s", "e", "r", "v", "i", "c", "e", "s", ".",
                            "g", "o", "v", ".", "i", "m">>
      [] piece = "viewjob?id=1" -> <<"v", "i", "e", "w", "j", "o", "b", "?",
                                     "i", "d", "=", "1">>
      [] piece = "viewjob?id=2" -> <<"v", "i", "e", "w", "j", "o", "b", "?",
                                     "i", "d", "=", "2">>

\* the text of a URL given by its pieces
UrlText(url) == Concat([i \in 1..Len(url) |-> PieceChars(url[i])])

\* the hrefs listing pages carry for two vacancies: absolute,
\* protocol-relative, relative to the domain, relative to the path
JobHrefs ==
    UNION {{<<"https://", Host, "/", path>>, <<"//", Host, "/", path>>,
            <<"/", path>>, <<path>>} : path \in {"viewjob?id=1", "viewjob?id=2"}}

\* parseJobFromHtml on a container whose title link has this href
\* (parser.js:314, 440): the guid hashes the normalized URL
parseJobFromHtml(href, clock, random) ==
    LET source_url == UrlText(normalizeUrl(href))
    IN [source_url |-> source_url,
        guid |-> generateJobGuid(source_url, clock, random)]

\* parseJobLinks on a link with this href (parser.js:265-271): the guid hashes
\* the href as written
parseJobLinks(href, clock, random) ==
    [source_url |-> UrlText(normalizeUrl(href)),
     guid |-> generateJobGuid(UrlText(href), clock, random)]

Strategies == {"container", "links"}

\* parseJobListings on a page of one listing (parser.js:184-232)
parseJobListings(strategy, href, clock, random) ==
    IF strategy = "container" THEN parseJobFromHtml(href, clock, random)
    ELSE parseJobLinks(href, clock, random)

NoListing == [source_url |-> <<>>, guid |-> NoGuid]

InitIdentity ==
    /\ PipelineIdle
    /\ exp \in [href1 : JobHrefs, href2 : JobHrefs,
                strategy1 : Strategies, strategy2 : Strategies,
                parsed : {FALSE}, job1 : {NoListing}, job2 : {NoListing}]

\* two listings are parsed, on one page or on the pages of two scrapes
CallParseJobListings ==
    /\ ~exp.parsed
    /\ \E t1, t2 \in Clocks, r1, r2 \in Randoms :
          /\ t1 <= t2
          /\ exp' = [exp EXCEPT
                        !.parsed = TRUE,
                        !.job1 = parseJobListings(exp.strategy1, exp.href1, t1, r1),
                        !.job2 = parseJobListings(exp.strategy2, exp.href2, t2, r2)]
    /\ UNCHANGED PipelineVars

NextIdentity == CallParseJobListings

SpecIdentity == InitIdentity /\ [][NextIdentity]_vars

\* C38: the guid of a parsed listing record is a function of its normalized
\* source_url in the container parse and in the link-scan fallback alike: two
\* records with equal source_url have equal guid, whether their hrefs were
\* relative or absolute, so no two stored rows come to share a source_url.
C38_GuidByNormalizedUrl ==
    (exp.parsed /\ exp.job1.source_url = exp.job2.source_url) =>
        exp.job1.guid = exp.job2.guid


----------------------------------------------------------------------------
(* The table a successful scrape leaves *)

\* C39: whenever scrapeJobs returns success = true, no stored row is active
\* with a closing_date earlier than the current date, also when the upsert of
\* the run reactivated a record whose closing date had passed or the
\* enrichment stored a past closing_date.
C39_NoActiveExpiredAfterSuccess ==
    (ScrapeDone /\ result.success) =>
        \A g \in DOMAIN jobs : ~Expired(jobs[g], now)


----------------------------------------------------------------------------
(* rateLimiter.js: calls of one IP whose KV steps interleave *)

MaxInFlight == 2      \* calls of the IP under way at one time

Callers == 1..MaxInFlight

\* a call between its steps: data is what its get returned
NoCall == [at |-> "idle", tier |-> "none", data |-> NoEntry]

\* all calls fall into one second, so into one window of either tier
InitInterleaved ==
    /\ PipelineIdle
    /\ exp = [clock |-> 0, kv |-> NoEntry, calls |-> 0,
              call |-> [p \in Callers |-> NoCall],
              allowed |-> [api |-> 0, ask |-> 0]]

\* rateLimiter.js:29: await env.RATE_LIMITER.get(key)
RateLimiterGet(p, tier) ==
    /\ exp.calls < MaxCalls
    /\ exp.call[p].at = "idle"
    /\ exp' = [exp EXCEPT !.calls = @ + 1,
                          !.call[p] = [at |-> "read", tier |-> tier, data |-> exp.kv]]
    /\ UNCHANGED PipelineVars

\* rateLimiter.js:33-93: the decision on the data read, the put of the whole
\* entry when the call is allowed, and the return
RateLimiterPut(p) ==
    /\ exp.call[p].at = "read"
    /\ LET c == exp.call[p]
           r == checkRateLimit(c.data, exp.clock, c.tier, FALSE)
       IN exp' = [exp EXCEPT !.kv = IF r.res.allowed THEN r.kv ELSE @,
                             !.call[p] = NoCall,
                             !.allowed[c.tier] = IF r.res.allowed THEN @ + 1 ELSE @]
    /\ UNCHANGED PipelineVars

NextInterleaved ==
    \/ \E p \in Callers, tier \in {"api", "ask"} : RateLimiterGet(p, tier)
    \/ \E p \in Callers : RateLimiterPut(p)

SpecInterleaved == InitInterleaved /\ [][NextInterleaved]_vars

\* C40: the per-IP limit also holds when calls of the same IP interleave
\* their KV get and put steps, in one tier or across the api and ask tiers
\* that share the key: no increment is lost (once the calls have returned,
\* the stored count of a tier is the number of calls it allowed in the
\* window) and at most maxRequests calls per tier are allowed in one window.
C40_LimitUnderInterleaving ==
    /\ \A tier \in {"api", "ask"} : exp.allowed[tier] <= TIERS[tier].maxRequests
    /\ (\A p \in Callers : exp.call[p].at = "idle") =>
           \A tier \in {"api", "ask"} : exp.kv[tier].count = exp.allowed[tier]

====
